---- MODULE Spec2Model ----
(***************************************************************************)
(* A model of the Jira ticket extractor.                                   *)
(*                                                                         *)
(*   Spec       the command-line entry point and the batch extraction      *)
(*              engine (main.py, core/extractor.py): probe, batch plan,    *)
(*              thread pool, _process_batch, collection of the results.    *)
(*   FairSpec   Spec with the fairness of the thread scheduler.            *)
(*   SpecLinks  one top-level ticket: TicketProcessor.process_ticket and   *)
(*              the link handlers it calls (core/processor.py,             *)
(*              utils/link_handlers.py), run as a call stack.              *)
(*   SpecClassify  the classification of one URL (LinkProcessor).          *)
(*   SpecInline    the inline comments of a Confluence page.               *)
(*   SpecRemote    FairSpec with remote calls that are never answered.     *)
(*   SpecConfig    the choice of the authentication mode                   *)
(*                 (utils/confluence.py: ConfluenceConfig.__init__).       *)
(*   SpecGeneric   LinkProcessor.process_generic_link on one answer.       *)
(*   SpecDirs      FileUtils.ensure_directory called by two threads        *)
(*                 (utils/file_utils.py).                                  *)
(***************************************************************************)
EXTENDS Integers, Sequences, FiniteSets, TLC

(***************************************************************************)
(* Bounds of the model.                                                    *)
(***************************************************************************)
\* the largest total the probe query reports
MaxTotal == 6
\* the largest --max-results below the batch limit
MaxPage == 3
\* the most failures (of the file system, of the remote, of a ticket) in a run
MaxFaults == 1
\* the most items (URL occurrences, attachments, comments) in the tickets of
\* a reference graph
MaxItems == 3
\* the most process_jira_link calls nested in one another
MaxNesting == 4
\* the most inline comments of a page
MaxComments == 3
\* the most calls of ensure_directory a thread makes
MaxCalls == 2

(***************************************************************************)
(* Program constants.                                                      *)
(***************************************************************************)
\* extractor.py:90  batch_size = min(max_results, 100)
BatchLimit == 100
\* extractor.py:94  max_workers = min(num_batches, 5)
PoolLimit == 5

\* extractor.py:27  self.output_dir = "jira_tickets"
OutputDir == <<"jira_tickets">>

VARIABLES
    \* ---- inputs of one run of the command line
    argsValid,      \* all([args.url, args.username, args.api_token, args.jql])
    credsOk,        \* JiraTicketExtractor(...) can be constructed
    max_results,    \* args.max_results
    totalFound,     \* the size of the (stable) result set of the query
    \* ---- the main thread
    pc,             \* where extract_jira / extract_tickets stands
    result,         \* what extract_tickets returned: "none", "True", "False"
    exitCode,       \* what extract_jira returned: -1 before it returns
    batch_size,     \* extract_tickets' local batch_size
    num_batches,    \* extract_tickets' local num_batches
    submitted,      \* the executor.submit calls made, in order
    failed_batches, \* extract_tickets' local failed_batches
    collected,      \* the futures as_completed has yielded so far
    \* ---- the ThreadPoolExecutor
    queue,          \* work items submitted and not yet started
    running,        \* batches a worker thread is running
    finished,       \* batch_num -> the (success, processed) a batch returned
    \* ---- the world
    ticketState,    \* result index -> "None", "Done", "Failed"
    fs,             \* the directories that exist
    fs0,            \* the directories that existed when the run began
    faults,         \* the failures that have happened so far
    \* ---- one top-level ticket and the links it reaches
    description,    \* ticket key -> the URLs of issue.fields.description
    comments,       \* ticket key -> the comments: [id, body: the URLs of it]
    orders,         \* ticket key -> for each comment, the order in which
                    \* this run of the interpreter iterates set(urls)
    attachment,     \* issue.fields.attachment: [id, filename]
    page,           \* the page of the content system the links lead to
    tstate,         \* where process_ticket stands for the top-level ticket
    stack,          \* the calls in progress that walk the links of a ticket
    fetches,        \* URL -> the remote fetches made for it
    steps,          \* the steps process_ticket has begun, with their results
    calls,          \* the process_link calls made, in order
    content,        \* path -> what was written to the file: the attachment
                    \* saved, the comments [id, links] of comments.json,
                    \* the URL of an error record
    \* ---- one call of ConfluenceContent.process_inline_comments
    comment_list,   \* its argument: the inline comments of a page
    output_list,    \* what it returned or raised; <<>> before the call
    \* ---- the remote systems
    blocked,        \* the batches whose worker waits for an answer that
                    \* never comes
    response,       \* the answer to the GET of process_generic_link
    \* ---- one construction of ConfluenceConfig
    kwargs,         \* url and the keyword arguments
    auth_mode,      \* self.auth_mode, or "ValueError"; "" before the call
    \* ---- the threads that call FileUtils.ensure_directory
    callers         \* thread -> where its call stands and what its calls
                    \* returned

vars == <<argsValid, credsOk, max_results, totalFound, pc, result, exitCode,
          batch_size, num_batches, submitted, failed_batches, collected,
          queue, running, finished, ticketState, fs, fs0, faults,
          description, comments, orders, attachment, page, tstate, stack,
          fetches, steps, calls, content, comment_list, output_list,
          blocked, response, kwargs, auth_mode, callers>>

batchVars == <<argsValid, credsOk, max_results, totalFound, pc, result,
               exitCode, batch_size, num_batches, submitted, failed_batches,
               collected, queue, running, finished, ticketState, fs0>>
inlineVars == <<comment_list, output_list>>
helperVars == <<blocked, response, kwargs, auth_mode, callers>>
linkVars == <<description, comments, orders, attachment, page, tstate, stack,
              fetches, steps, calls, content, inlineVars, helperVars>>
worldVars == <<description, comments, orders, attachment, page, inlineVars,
               helperVars>>

inputVars == <<argsValid, credsOk, max_results, totalFound, fs0>>
planVars == <<batch_size, num_batches>>
poolVars == <<queue, running, finished>>

(***************************************************************************)
(* Helpers.                                                                *)
(***************************************************************************)
\* Python's min(a, b)
Min(a, b) == IF a < b THEN a ELSE b

\* math.ceil(a / b) for a >= 0 and b # 0
Ceil(a, b) ==
    IF b > 0 THEN (a + b - 1) \div b
    ELSE -(a \div (-b))

\* a slip: a batch size below one replaced by one
BatchSizeAtLeastOne(maxResults) ==
    IF Min(maxResults, BatchLimit) < 1 THEN 1 ELSE Min(maxResults, BatchLimit)

\* extractor.py:90
BatchSize(maxResults) == Min(maxResults, BatchLimit)

\* a slip: the batch count rounded down
NumBatchesFloor(total, size) == total \div size

\* extractor.py:91
NumBatches(total, size) == Ceil(total, size)

\* a slip: one worker per batch, without the cap
MaxWorkersUncapped(n) == n

\* extractor.py:94
MaxWorkers(n) == Min(n, PoolLimit)

\* a slip: the 0-based batch number recorded
FailedIndexZeroBased(b) == b

\* extractor.py:120, 123  the index recorded for a failed batch
FailedIndex(b) == b + 1

\* jira.search_issues(jql, startAt, maxResults) over a stable result set: the
\* result indices of the page, in order
SearchPage(start, size) ==
    LET n == Min(size, totalFound - start)
    IN  [k \in 1..(IF n > 0 THEN n ELSE 0) |-> start + k - 1]

Range(s) == {s[k] : k \in DOMAIN s}

\* issue.key of the ticket at a result index
TicketKey(i) == ToString(i)

\* os.path.join(self.output_dir, ticket_key)
TicketDir(i) == Append(OutputDir, TicketKey(i))

\* the values --max-results takes in the model
PageSizes == {-1, 0} \cup (1..MaxPage) \cup {BatchLimit + 1}

Indices == 0..(MaxTotal - 1)

\* no remote call hangs, and no helper is run on its own
HelpersIdle ==
    /\ blocked = {}
    /\ response = <<>>
    /\ kwargs = <<>>
    /\ auth_mode = ""
    /\ callers = <<>>

(***************************************************************************)
(* Init: the command line has been parsed, nothing has run.                *)
(***************************************************************************)
Init ==
    /\ argsValid \in BOOLEAN
    /\ credsOk \in BOOLEAN
    /\ max_results \in PageSizes
    /\ totalFound \in 0..MaxTotal
    /\ fs \in {{}, {OutputDir}}
    /\ fs0 = fs
    /\ pc = "cli"
    /\ result = "none"
    /\ exitCode = -1
    /\ batch_size = 0
    /\ num_batches = 0
    /\ submitted = <<>>
    /\ failed_batches = <<>>
    /\ collected = {}
    /\ queue = <<>>
    /\ running = {}
    /\ finished = <<>>
    /\ ticketState = [i \in Indices |-> "None"]
    /\ faults = 0
    /\ description = <<>>
    /\ comments = <<>>
    /\ orders = <<>>
    /\ attachment = <<>>
    /\ page = <<>>
    /\ tstate = "Idle"
    /\ stack = <<>>
    /\ fetches = <<>>
    /\ steps = <<>>
    /\ calls = <<>>
    /\ content = <<>>
    /\ comment_list = <<>>
    /\ output_list = <<>>
    /\ HelpersIdle

(***************************************************************************)
(* main.py: extract_jira                                                   *)
(***************************************************************************)
\* a slip: the arguments are not validated before the extractor is made
extract_jira_unvalidated ==
    /\ pc = "cli"
    /\ IF credsOk
       THEN /\ pc' = "extract"
            /\ UNCHANGED exitCode
       ELSE /\ pc' = "exited"
            /\ exitCode' = 1
    /\ UNCHANGED <<inputVars, planVars, poolVars, result, submitted,
                   failed_batches, collected, ticketState, fs, faults,
                   linkVars>>

\* main.py:19-31  validation and construction; either raises into the
\* except clause of extract_jira, which returns 1
extract_jira ==
    /\ pc = "cli"
    /\ IF argsValid /\ credsOk
       THEN /\ pc' = "extract"
            /\ UNCHANGED exitCode
       ELSE /\ pc' = "exited"
            /\ exitCode' = 1
    /\ UNCHANGED <<inputVars, planVars, poolVars, result, submitted,
                   failed_batches, collected, ticketState, fs, faults,
                   linkVars>>

\* main.py:33-37  the value of extract_tickets is dropped and 0 is returned
extract_jira_return ==
    /\ pc = "returned"
    /\ pc' = "exited"
    /\ exitCode' = 0
    /\ UNCHANGED <<inputVars, planVars, poolVars, result, submitted,
                   failed_batches, collected, ticketState, fs, faults,
                   linkVars>>

(***************************************************************************)
(* core/extractor.py: extract_tickets                                      *)
(***************************************************************************)
\* the environment may fail once more
MayFail == faults < MaxFaults

\* extractor.py:132-134  except Exception: return False
ReturnFalse ==
    /\ pc' = "returned"
    /\ result' = "False"
    /\ UNCHANGED planVars

\* extractor.py:89-94  the batch plan and the construction of the pool
PlanBatches ==
    IF BatchSize(max_results) = 0
    THEN \* ZeroDivisionError
         ReturnFalse
    ELSE LET size == BatchSize(max_results)
             n == NumBatches(totalFound, size)
         IN  IF MaxWorkers(n) <= 0
             THEN \* ThreadPoolExecutor raises ValueError
                  ReturnFalse
             ELSE /\ pc' = "submit"
                  /\ batch_size' = size
                  /\ num_batches' = n
                  /\ UNCHANGED result

\* extractor.py:74-94  output directory, probe, early return, batch plan
extract_tickets ==
    /\ pc = "extract"
    /\ \E mkdirOk \in {TRUE, ~MayFail}, probeOk \in {TRUE, ~MayFail} :
         IF OutputDir \notin fs /\ ~mkdirOk
         THEN \* os.makedirs raised
              /\ ReturnFalse
              /\ faults' = faults + 1
              /\ UNCHANGED fs
         ELSE /\ fs' = fs \cup {OutputDir}
              /\ IF ~probeOk
                 THEN \* search_issues raised
                      /\ ReturnFalse
                      /\ faults' = faults + 1
                 ELSE /\ UNCHANGED faults
                      /\ IF totalFound = 0
                         THEN /\ pc' = "returned"
                              /\ result' = "True"
                              /\ UNCHANGED planVars
                         ELSE PlanBatches
    /\ UNCHANGED <<inputVars, poolVars, exitCode, submitted, failed_batches,
                   collected, ticketState, linkVars>>

\* extractor.py:99
StartAt(batchNum, size) == batchNum * size

\* extractor.py:98-106  one turn of the submission loop; after the last
\* turn the main thread enters as_completed
submit ==
    /\ pc = "submit"
    /\ LET batch_num == Len(submitted)
       IN  /\ batch_num < num_batches
           /\ submitted' = Append(submitted,
                  [batch_num |-> batch_num,
                   start_at |-> StartAt(batch_num, batch_size),
                   batch_size |-> batch_size])
           /\ queue' = Append(queue, batch_num)
           /\ pc' = IF batch_num + 1 = num_batches THEN "collect" ELSE "submit"
    /\ UNCHANGED <<inputVars, planVars, running, finished, result, exitCode,
                   failed_batches, collected, ticketState, fs, faults,
                   linkVars>>

\* extractor.py:94  a worker thread of the pool takes the oldest work item;
\* the pool never has more than max_workers threads
worker_start ==
    /\ queue # <<>>
    /\ Cardinality(running) < MaxWorkers(num_batches)
    /\ running' = running \cup {Head(queue)}
    /\ queue' = Tail(queue)
    /\ UNCHANGED <<inputVars, planVars, finished, pc, result, exitCode,
                   submitted, failed_batches, collected, ticketState, fs, faults,
                   linkVars>>

\* processor.py:23-68 seen from the batch: process_ticket returns True
\* (Done) or False (Failed); it catches what its steps raise
TicketOutcomes == {"Done", "Failed"}

NotDone(outcome) == {i \in DOMAIN outcome : outcome[i] # "Done"}

\* a slip: the try around the loop instead of inside it, so that the first
\* ticket that fails ends the loop
RECURSIVE ProcessLoopAborting(_, _)
ProcessLoopAborting(issues, outcome) ==
    IF issues = <<>>
    THEN [invoked |-> <<>>, processed |-> 0]
    ELSE IF outcome[Head(issues)] # "Done"
    THEN [invoked |-> <<Head(issues)>>, processed |-> 0]
    ELSE LET rest == ProcessLoopAborting(Tail(issues), outcome)
         IN  [invoked |-> <<Head(issues)>> \o rest.invoked,
              processed |-> rest.processed + 1]

\* extractor.py:159-165  the loop over the issues of the page: the tickets
\* process_ticket is invoked on, in order, and the count of those it
\* returned True for; what a ticket raises is caught inside the loop
RECURSIVE ProcessLoop(_, _)
ProcessLoop(issues, outcome) ==
    IF issues = <<>>
    THEN [invoked |-> <<>>, processed |-> 0]
    ELSE LET rest == ProcessLoop(Tail(issues), outcome)
         IN  [invoked |-> <<Head(issues)>> \o rest.invoked,
              processed |-> rest.processed +
                            (IF outcome[Head(issues)] = "Done" THEN 1 ELSE 0)]

\* extractor.py:159-167  the value _process_batch returns after its loop
BatchResult(run) ==
    [success |-> TRUE, processed |-> run.processed, invoked |-> run.invoked]

\* extractor.py:169-171  the value _process_batch returns from its except
BatchError == [success |-> FALSE, processed |-> 0, invoked |-> <<>>]

\* extractor.py:136-171  _process_batch, run by a worker thread
process_batch(b) ==
    /\ b \in running
    /\ b \notin blocked
    /\ LET req == submitted[b + 1]
           issues == SearchPage(req.start_at, req.batch_size)
       IN  \E searchOk \in {TRUE, ~MayFail} :
             IF ~searchOk
             THEN \* search_issues raised
                  /\ finished' = finished @@ (b :> BatchError)
                  /\ faults' = faults + 1
                  /\ UNCHANGED <<ticketState, fs>>
             ELSE IF issues = <<>>
             THEN \* issues[0] raised IndexError
                  /\ finished' = finished @@ (b :> BatchError)
                  /\ UNCHANGED <<ticketState, fs, faults>>
             ELSE \E outcome \in [Range(issues) -> TicketOutcomes] :
                  LET run == ProcessLoop(issues, outcome)
                      tried == Range(run.invoked)
                  IN  /\ faults + Cardinality(NotDone(outcome)) <= MaxFaults
                      /\ faults' = faults + Cardinality(NotDone(outcome))
                      /\ finished' = finished @@ (b :> BatchResult(run))
                      /\ ticketState' = [i \in Indices |->
                            IF i \in tried THEN outcome[i] ELSE ticketState[i]]
                      /\ fs' = fs \cup {TicketDir(i) : i \in
                                          tried \ NotDone(outcome)}
    /\ running' = running \ {b}
    /\ UNCHANGED <<inputVars, planVars, queue, pc, result, exitCode, submitted,
                   failed_batches, collected, linkVars>>

\* extractor.py:110-123  as_completed yields a finished future
collect(b) ==
    /\ pc = "collect"
    /\ b \in DOMAIN finished
    /\ b \notin collected
    /\ collected' = collected \cup {b}
    /\ failed_batches' = IF finished[b].success
                         THEN failed_batches
                         ELSE Append(failed_batches, FailedIndex(b))
    /\ UNCHANGED <<inputVars, planVars, poolVars, pc, result, exitCode,
                   submitted, ticketState, fs, faults, linkVars>>

\* a slip: the collection loop left at the first failed batch
PoolDrainedOrFailed ==
    \/ failed_batches # <<>>
    \/ /\ collected = 0..(num_batches - 1)
       /\ queue = <<>>
       /\ running = {}

\* extractor.py:94, 110  as_completed is exhausted and the with block has
\* shut the pool down, waiting for its work items
PoolDrained ==
    /\ collected = 0..(num_batches - 1)
    /\ queue = <<>>
    /\ running = {}

\* extractor.py:125-130
extract_tickets_return ==
    /\ pc = "collect"
    /\ PoolDrained
    /\ pc' = "returned"
    /\ result' = IF failed_batches # <<>> THEN "False" ELSE "True"
    /\ UNCHANGED <<inputVars, planVars, poolVars, exitCode, submitted,
                   failed_batches, collected, ticketState, fs, faults,
                   linkVars>>

Batches == 0..(MaxTotal - 1)

Next ==
    \/ extract_jira
    \/ extract_tickets
    \/ submit
    \/ worker_start
    \/ \E b \in Batches : process_batch(b)
    \/ \E b \in Batches : collect(b)
    \/ extract_tickets_return
    \/ extract_jira_return

Spec == Init /\ [][Next]_vars

\* the operating system keeps running some thread that can take a step
FairSpec == Spec /\ WF_vars(Next)

(***************************************************************************)
(* The batch engine with a remote that may stay silent.                     *)
(***************************************************************************)
\* the blocking remote calls a batch makes
RemoteCalls ==
    {"search_issues", "issue", "comments", "attachment_get", "page",
     "page_attachment", "generic_get"}

\* the timeout argument of the call in the source: only the GET of
\* process_generic_link (link_handlers.py:251) has one
TimeoutArg(call) == IF call = "generic_get" THEN "30" ELSE "none"

\* the object the call is made on: the tracker client (extractor.py:31), the
\* client of the content system (confluence.py:199-222) or the
\* requests.Session of extractor.py:47
Client(call) ==
    IF call \in {"search_issues", "issue", "comments", "attachment_get"}
    THEN "jira"
    ELSE IF call = "page" THEN "confluence"
    ELSE "session"

\* a call on the session without a timeout argument waits for the answer
\* without bound (link_handlers.py:138); the calls on the two clients are
\* taken to end, whatever their libraries do by default
WaitsForever(call) == TimeoutArg(call) = "none" /\ Client(call) = "session"

\* the remote never answers a call of batch b that waits without bound: the
\* worker thread of the batch stays in the call
remote_silent(b) ==
    /\ b \in running
    /\ b \notin blocked
    /\ MayFail
    /\ \E call \in RemoteCalls : WaitsForever(call)
    /\ blocked' = blocked \cup {b}
    /\ faults' = faults + 1
    /\ UNCHANGED <<batchVars, fs, description, comments, orders, attachment,
                   page, tstate, stack, fetches, steps, calls, content,
                   inlineVars, response, kwargs, auth_mode, callers>>

NextRemote ==
    \/ Next
    \/ \E b \in Batches : remote_silent(b)

SpecRemote == Init /\ [][NextRemote]_vars /\ WF_vars(NextRemote)

(***************************************************************************)
(* One top-level ticket: TicketProcessor.process_ticket and LinkHandler.    *)
(*                                                                         *)
(* A URL is its host (a sequence of labels) and its path (a sequence of     *)
(* segments).  The body of a description or of a comment is the sequence of *)
(* URL occurrences re.findall returns for it.  At most one failure (of the  *)
(* file system or of the remote) happens while the ticket is processed.     *)
(***************************************************************************)
\* no failure has happened yet
LinkMayFail == faults = 0

LinkTickets == {"T1", "T2"}

\* the ticket process_ticket is called on
TopTicket == "T1"

BrowseUrl(key) ==
    [host |-> <<"acme", "atlassian", "net">>, path |-> <<"browse", key>>]
DocUrl ==
    [host |-> <<"docs", "google", "com">>, path |-> <<"document", "d1">>]
WikiUrl ==
    [host |-> <<"acme", "atlassian", "net">>,
     path |-> <<"wiki", "spaces", "ENG", "pages", "p1">>]
WebUrl ==
    [host |-> <<"example", "org">>, path |-> <<"readme">>]

LinkUrls == {BrowseUrl(k) : k \in LinkTickets} \cup {DocUrl, WikiUrl, WebUrl}

\* the URL attachment.get() downloads
AttachmentUrl(att) ==
    [host |-> <<"acme", "atlassian", "net">>,
     path |-> <<"secure", "attachment", att.id, att.filename>>]

\* needle in domain, for a domain name as needle: the labels of the needle
\* occur in a row in the host
InDomain(needle, url) ==
    \E k \in 0..(Len(url.host) - Len(needle)) :
        \A j \in 1..Len(needle) : url.host[k + j] = needle[j]

\* needle in url, for a word as needle
InUrl(needle, url) == needle \in Range(url.host) \cup Range(url.path)

\* link_handlers.py:87  ("wiki" and "spaces" and "pages") is the string
\* "pages"
ConfluenceMarker == "pages"

\* a slip: the ticket branch tested before the page branch
ClassifyTicketFirst(url, projectKey) ==
    IF InDomain(<<"docs", "google", "com">>, url)
       \/ InDomain(<<"drive", "google", "com">>, url)
    THEN "google"
    ELSE IF projectKey /\ InUrl("browse", url)
    THEN "jira"
    ELSE IF InUrl(ConfluenceMarker, url)
    THEN "confluence"
    ELSE "none"

\* link_handlers.py:81-93  the handler process_link hands the URL to;
\* "none" when no branch is taken and process_link returns None
Classify(url, projectKey) ==
    IF InDomain(<<"docs", "google", "com">>, url)
       \/ InDomain(<<"drive", "google", "com">>, url)
    THEN "google"
    ELSE IF InUrl(ConfluenceMarker, url)
    THEN "confluence"
    ELSE IF projectKey /\ InUrl("browse", url)
    THEN "jira"
    ELSE "none"

\* extractor.py:155-158  the processor of a batch, and with it the link
\* handler, gets the project key of the first issue of the page of the
\* batch; the tickets of the model are those of one project
ProjectKey == "T"

\* a slip: the project key is handed to the walk of the ticket the batch
\* processes and not to the walks of the tickets it links to
ProjectKeyAtTopOnly == stack[Len(stack)].key = TopTicket

\* link_handlers.py:91  self.project_key is true: it is not None and not ""
ProjectKeyKnown == ProjectKey # ""

\* link_handlers.py:166  url.split('/')[-1]
LastSegment(url) ==
    IF url.path = <<>> THEN "" ELSE url.path[Len(url.path)]

\* os.path.join(dir, name)
Join(dir, name) == Append(dir, name)

\* the path p lies under the directory dir
Under(dir, p) == Len(p) > Len(dir) /\ SubSeq(p, 1, Len(dir)) = dir

\* the orders in which a Python set may be iterated; the order of a given
\* set is the same every time one run of the interpreter iterates it
Orders(S) ==
    {f \in [1..Cardinality(S) -> S] : \A j, k \in 1..Cardinality(S) :
                                          f[j] = f[k] => j = k}

\* processor.py:281 / link_handlers.py:222  urls.index(url): the position of
\* the first occurrence, from 0
IndexOf(urls, url) ==
    (CHOOSE k \in DOMAIN urls :
        urls[k] = url /\ \A j \in 1..(k - 1) : urls[j] # url) - 1

\* processor.py:280-281 / link_handlers.py:221-222  the process_link calls
\* of the description loop, in order
DescriptionCalls(key, dir) ==
    LET urls == description[key]
    IN  [k \in DOMAIN urls |->
            [url |-> urls[k], dir |-> dir, comment |-> "",
             prefix |-> "description_link_" \o ToString(IndexOf(urls, urls[k]))]]

\* processor.py:212-217, 297-301 / link_handlers.py:232-234  the
\* process_link calls for one comment, the set of its URLs taken in the
\* order ord
CommentCalls(comment, ord, dir) ==
    [k \in DOMAIN ord |->
        [url |-> ord[k], dir |-> dir, comment |-> comment.id,
         prefix |-> "comment_" \o comment.id \o "_link_" \o ToString(k - 1)]]

\* the calls for the comments cs, comment after comment; ords gives an
\* order for the URL set of each
RECURSIVE AllCommentCalls(_, _, _)
AllCommentCalls(cs, ords, dir) ==
    IF cs = <<>> THEN <<>>
    ELSE CommentCalls(Head(cs), Head(ords), dir)
         \o AllCommentCalls(Tail(cs), Tail(ords), dir)

\* a choice of iteration order for the URL set of each comment of cs
OrderChoices(cs) ==
    {ords \in [DOMAIN cs -> UNION {Orders(Range(cs[k].body)) : k \in DOMAIN cs}] :
        \A k \in DOMAIN cs : ords[k] \in Orders(Range(cs[k].body))}

Top == stack[Len(stack)]

\* the stack with its top frame replaced
WithTop(frame) == [stack EXCEPT ![Len(stack)] = frame]

Pop == SubSeq(stack, 1, Len(stack) - 1)

\* the process_jira_link calls in progress
JiraFrames == {k \in DOMAIN stack : stack[k].fn = "process_jira_link"}

\* the call the loop of the top frame makes next
NextCall == Head(Top.todo)

\* link_handlers.py:220-222, 233-234  the loop variable url of
\* process_jira_link is the parameter url
AfterCall(frame, call) ==
    [frame EXCEPT !.todo = Tail(@),
                  !.url = IF frame.fn = "process_jira_link"
                          THEN call.url ELSE @]

Walking == stack # <<>> /\ Top.todo # <<>>

\* the fetches made so far for a URL
Fetched(url) == IF url \in DOMAIN fetches THEN fetches[url] ELSE 0

\* fetches after one more fetch of each URL of the set urls
FetchAll(urls) ==
    [u \in DOMAIN fetches \cup urls |->
        Fetched(u) + (IF u \in urls THEN 1 ELSE 0)]

\* the files after the writes of the function written (path -> content)
Written(written) == written @@ content

\* files of which the model keeps no content
Data(paths) == [p \in paths |-> "data"]

(***************************************************************************)
(* The reference graphs of the model: the top-level ticket T1 and the       *)
(* ticket T2, with at most MaxItems items (URL occurrences, attachments,    *)
(* comments) in all, and nothing in a ticket no link leads to.  The         *)
(* resolution of a linked ticket reads neither its attachments nor the      *)
(* attachments of its comments, so only T1 has them.                        *)
(***************************************************************************)
Bodies(n) == UNION {[1..k -> LinkUrls] : k \in 0..n}

\* comment ids are unique across the tickets of the tracker
CommentId(key, k) == "c" \o ToString(k) \o key

\* the file names n attachments of one owner may have: all different, or
\* all the same (the tracker lets two attachments share a file name)
FileNames(n) ==
    {[j \in 1..n |-> "f" \o ToString(j) \o ".bin"]}
    \cup (IF n >= 2 THEN {[j \in 1..n |-> "f1.bin"]} ELSE {})

\* the attachments of an owner (a ticket or a comment), with their ids
Attachments(owner, names) ==
    [j \in DOMAIN names |->
        [id |-> owner \o "_" \o ToString(j), filename |-> names[j]]]

\* the comments a ticket may have at position k, of at most n items each;
\* a comment with no body (comment.body is None) has no URL
CommentChoices(key, k, n) ==
    {[id |-> CommentId(key, k), body |-> b, has_body |-> h,
      attachment |-> Attachments(CommentId(key, k), names)] :
        b \in Bodies(n - 1),
        h \in (IF key = TopTicket THEN BOOLEAN ELSE {TRUE}),
        names \in UNION {FileNames(a) :
                    a \in (IF key = TopTicket THEN 0..(n - 1) ELSE {0})}}

CommentSize(c) == 1 + Len(c.body) + Len(c.attachment)

RECURSIVE CommentLists(_, _, _)
CommentLists(key, k, n) ==
    {<<>>} \cup
    UNION {{<<c>> \o rest : rest \in CommentLists(key, k + 1, n - CommentSize(c))} :
           c \in {x \in CommentChoices(key, k, n) :
                     /\ CommentSize(x) <= n
                     /\ ~x.has_body => x.body = <<>>}}

RECURSIVE Occurrences(_)
Occurrences(cs) ==
    IF cs = <<>> THEN 0 ELSE CommentSize(Head(cs)) + Occurrences(Tail(cs))

\* the URLs of the bodies of the comments cs
CommentUrls(cs) == UNION {Range(cs[k].body) : k \in DOMAIN cs}

\* the answers of the content system to the fetch of a page.  A page is
\* [title, inline_comments, links, attachments]: the title as the segments
\* its text has between slashes, the inline comments as [id, parent] (parent
\* 0: no ancestors), the URLs of the <a> elements of the body and the number
\* of attachments.
Threaded == <<[id |-> 1, parent |-> 0], [id |-> 2, parent |-> 1]>>

Dangling == <<[id |-> 1, parent |-> 0], [id |-> 3, parent |-> 2]>>

HomePage ==
    [title |-> <<"Home">>, inline_comments |-> Threaded,
     links |-> <<WebUrl>>, attachments |-> 1]

Pages ==
    {HomePage,
     [HomePage EXCEPT !.title = <<"..", "..", "Home">>],
     [HomePage EXCEPT !.inline_comments = Dangling]}

\* the state of one top-level ticket before process_ticket is called on it
TicketCreated ==
    /\ tstate = "Created"
    /\ stack = <<>>
    /\ fetches = <<>>
    /\ steps = <<>>
    /\ calls = <<>>
    /\ content = <<>>
    /\ comment_list = <<>>
    /\ output_list = <<>>
    /\ HelpersIdle
    /\ fs = {OutputDir}
    /\ fs0 = fs
    /\ faults = 0
    /\ argsValid = TRUE
    /\ credsOk = TRUE
    /\ max_results = 1
    /\ totalFound = 1
    /\ pc = "ticket"
    /\ result = "none"
    /\ exitCode = -1
    /\ batch_size = 1
    /\ num_batches = 1
    /\ submitted = <<>>
    /\ failed_batches = <<>>
    /\ collected = {}
    /\ queue = <<>>
    /\ running = {}
    /\ finished = <<>>
    /\ ticketState = [i \in Indices |-> "None"]

InitLinks ==
    /\ \E d1 \in Bodies(MaxItems) :
       \E a1 \in 0..(MaxItems - Len(d1)) :
       \E c1 \in CommentLists(TopTicket, 1, MaxItems - Len(d1) - a1) :
       LET used == Len(d1) + a1 + Occurrences(c1)
           linked == \E k \in LinkTickets \ {TopTicket} :
                        BrowseUrl(k) \in Range(d1) \cup CommentUrls(c1)
       IN  \E d2 \in (IF linked THEN Bodies(MaxItems - used) ELSE {<<>>}) :
           \E c2 \in (IF linked
                      THEN CommentLists("T2", 1, MaxItems - used - Len(d2))
                      ELSE {<<>>}) :
             /\ description = [k \in LinkTickets |->
                                  IF k = TopTicket THEN d1 ELSE d2]
             /\ comments = [k \in LinkTickets |->
                               IF k = TopTicket THEN c1 ELSE c2]
             /\ \E names \in FileNames(a1) :
                  attachment = Attachments(TopTicket, names)
             /\ \E o1 \in OrderChoices(c1) : \E o2 \in OrderChoices(c2) :
                  orders = [k \in LinkTickets |->
                               IF k = TopTicket THEN o1 ELSE o2]
             /\ page \in (IF WikiUrl \in Range(d1) \cup CommentUrls(c1)
                                        \cup Range(d2) \cup CommentUrls(c2)
                          THEN Pages ELSE {HomePage})
    /\ TicketCreated

(***************************************************************************)
(* The URLs process_link is applied to when its classification is checked:  *)
(* a host and a path made of the words its branches look for.               *)
(***************************************************************************)
ClassifyHosts ==
    {<<"docs", "google", "com">>, <<"drive", "google", "com">>,
     <<"acme", "atlassian", "net">>, <<"example", "org">>,
     <<"browse", "example", "org">>}

ClassifyWords == <<"wiki", "spaces", "pages", "browse", "T2">>

\* the words of ClassifyWords at the positions of S, in order
RECURSIVE SubPath(_, _)
SubPath(S, k) ==
    IF k > Len(ClassifyWords) THEN <<>>
    ELSE (IF k \in S THEN <<ClassifyWords[k]>> ELSE <<>>) \o SubPath(S, k + 1)

ClassifyUrls ==
    {[host |-> h, path |-> SubPath(S, 1)] :
        h \in ClassifyHosts, S \in SUBSET DOMAIN ClassifyWords}

\* a top-level ticket whose only comment holds one URL
InitClassify ==
    /\ \E u \in ClassifyUrls :
         /\ description = [k \in LinkTickets |-> <<>>]
         /\ comments = [k \in LinkTickets |->
              IF k = TopTicket
              THEN <<[id |-> CommentId(k, 1), body |-> <<u>>,
                      has_body |-> TRUE, attachment |-> <<>>]>>
              ELSE <<>>]
         /\ orders = [k \in LinkTickets |->
                         IF k = TopTicket THEN <<<<u>>>> ELSE <<>>]
         /\ page \in (IF Classify(u, ProjectKeyKnown) = "confluence"
                      THEN Pages ELSE {HomePage})
    /\ attachment = <<>>
    /\ TicketCreated

(***************************************************************************)
(* core/processor.py: process_ticket and its steps                         *)
(***************************************************************************)
\* processor.py:39
TopDir == Join(OutputDir, TopTicket)

\* a step of process_ticket begins
Begin(step, res) == Append(steps, [step |-> step, result |-> res])

\* the step in progress returns
End(res) == [steps EXCEPT ![Len(steps)].result = res]

\* processor.py:37-41  the ticket directory
process_ticket ==
    /\ tstate = "Created"
    /\ stack = <<>>
    /\ \E ok \in {TRUE, ~LinkMayFail} :
         IF ok
         THEN /\ tstate' = "DirReady"
              /\ fs' = fs \cup {TopDir}
              /\ UNCHANGED faults
         ELSE /\ tstate' = "Failed"
              /\ faults' = faults + 1
              /\ UNCHANGED fs
    /\ UNCHANGED <<batchVars, worldVars, stack, fetches, steps, calls, content>>

\* a slip: a step whose failure is not looked at
PipelineStepUnchecked(from, to, step, file) ==
    /\ tstate = from
    /\ stack = <<>>
    /\ \E ok \in {TRUE, ~LinkMayFail} :
         /\ tstate' = to
         /\ IF ok
            THEN /\ steps' = Begin(step, "ok")
                 /\ fs' = fs \cup {file}
                 /\ content' = Written(Data({file}))
                 /\ UNCHANGED faults
            ELSE /\ steps' = Begin(step, "failed")
                 /\ faults' = faults + 1
                 /\ UNCHANGED <<fs, content>>
    /\ UNCHANGED <<batchVars, worldVars, stack, fetches, calls>>

\* processor.py:44-49  a step of process_ticket that writes one file under
\* the ticket directory and returns False when it cannot
PipelineStep(from, to, step, file) ==
    /\ tstate = from
    /\ stack = <<>>
    /\ \E ok \in {TRUE, ~LinkMayFail} :
         IF ok
         THEN /\ tstate' = to
              /\ steps' = Begin(step, "ok")
              /\ fs' = fs \cup {file}
              /\ content' = Written(Data({file}))
              /\ UNCHANGED faults
         ELSE /\ tstate' = "Failed"
              /\ steps' = Begin(step, "failed")
              /\ faults' = faults + 1
              /\ UNCHANGED <<fs, content>>
    /\ UNCHANGED <<batchVars, worldVars, stack, fetches, calls>>

\* processor.py:70-99
save_ticket_info ==
    PipelineStep("DirReady", "InfoSaved", "save_ticket_info",
                 Join(TopDir, TopTicket \o "_info.json"))

\* processor.py:101-130
create_ticket_pdf ==
    PipelineStep("InfoSaved", "DocumentRendered", "create_ticket_pdf",
                 Join(TopDir, TopTicket \o ".pdf"))

\* a slip: the try around the loop instead of inside it, so that the first
\* attachment that fails ends the loop and fails the step
RECURSIVE AttachmentLoopAborting(_, _)
AttachmentLoopAborting(atts, outcome) ==
    IF atts = <<>>
    THEN [attempted |-> <<>>, written |-> <<>>, ok |-> TRUE]
    ELSE IF outcome[Head(atts).id] = "failed"
    THEN [attempted |-> <<Head(atts)>>, written |-> <<>>, ok |-> FALSE]
    ELSE LET rest == AttachmentLoopAborting(Tail(atts), outcome)
         IN  [attempted |-> <<Head(atts)>> \o rest.attempted,
              written |-> rest.written
                          @@ (Head(atts).filename :> Head(atts).id),
              ok |-> rest.ok]

\* processor.py:139-153, 184-200  the loop over the attachments: get() or
\* save_file failing for one is logged inside the loop; the attachments
\* get() was called for, what the directory holds afterwards (file name ->
\* the attachment saved under it, a later save replacing an earlier one),
\* and whether the loop came to its end
RECURSIVE AttachmentLoop(_, _)
AttachmentLoop(atts, outcome) ==
    IF atts = <<>>
    THEN [attempted |-> <<>>, written |-> <<>>, ok |-> TRUE]
    ELSE LET rest == AttachmentLoop(Tail(atts), outcome)
         IN  [attempted |-> <<Head(atts)>> \o rest.attempted,
              written |-> rest.written
                          @@ (IF outcome[Head(atts).id] = "saved"
                              THEN Head(atts).filename :> Head(atts).id
                              ELSE <<>>),
              ok |-> rest.ok]

\* the ids of the attachments atts
Ids(atts) == {atts[k].id : k \in DOMAIN atts}

\* the files a loop over attachments wrote into dir, with their content
SavedIn(dir, written) ==
    [p \in {Join(dir, n) : n \in DOMAIN written} |-> written[p[Len(p)]]]

\* the outcomes of the downloads of the attachments atts: at most one fails
AttachmentOutcomes(atts) ==
    {o \in [Ids(atts) -> {"saved", "failed"}] :
        Cardinality({n \in Ids(atts) : o[n] = "failed"})
            <= (IF LinkMayFail THEN 1 ELSE 0)}

\* processor.py:132-159
extract_attachments ==
    /\ tstate = "DocumentRendered"
    /\ stack = <<>>
    /\ LET attachments_dir == Join(TopDir, "attachments")
       IN  \E dirOk \in {TRUE, ~LinkMayFail} :
             IF ~dirOk
             THEN \* ensure_directory returned False
                  /\ tstate' = "Failed"
                  /\ steps' = Begin("extract_attachments", "failed")
                  /\ faults' = faults + 1
                  /\ UNCHANGED <<fs, content, fetches>>
             ELSE \E outcome \in AttachmentOutcomes(attachment) :
                  LET run == AttachmentLoop(attachment, outcome)
                      files == SavedIn(attachments_dir, run.written)
                  IN  /\ fs' = fs \cup {attachments_dir} \cup DOMAIN files
                      /\ content' = Written(files)
                      /\ fetches' = FetchAll({AttachmentUrl(a) :
                                                a \in Range(run.attempted)})
                      /\ faults' = faults + Cardinality(
                             {n \in Ids(attachment) : outcome[n] = "failed"})
                      /\ tstate' = IF run.ok THEN "AttachmentsFetched"
                                             ELSE "Failed"
                      /\ steps' = Begin("extract_attachments",
                                        IF run.ok THEN "ok" ELSE "failed")
    /\ UNCHANGED <<batchVars, worldVars, stack, calls>>

\* a frame of the stack
Frame(fn, key, url, linksDir, prefix, phase, todo) ==
    [fn |-> fn, key |-> key, url |-> url, links_dir |-> linksDir,
     prefix |-> prefix, phase |-> phase, todo |-> todo, ci |-> 0,
     recorded |-> <<>>, call |-> Len(calls) + 1]

\* processor.py:161-172  the comments directory and the list of comments
extract_comments ==
    /\ tstate = "AttachmentsFetched"
    /\ stack = <<>>
    /\ \E ok \in {TRUE, ~LinkMayFail} :
         IF ok
         THEN /\ fs' = fs \cup {Join(TopDir, "comments")}
              /\ stack' = <<Frame("extract_comments", TopTicket, <<>>,
                                  Join(TopDir, "comments"), "", "between", <<>>)>>
              /\ steps' = Begin("extract_comments", "running")
              /\ UNCHANGED <<tstate, faults>>
         ELSE \* ensure_directory returned False, or jira.comments raised
              /\ tstate' = "Failed"
              /\ steps' = Begin("extract_comments", "failed")
              /\ faults' = faults + 1
              /\ UNCHANGED <<fs, stack>>
    /\ UNCHANGED <<batchVars, worldVars, fetches, calls, content>>

\* processor.py:173-214  the next comment: its directory, its attachments,
\* its links directory and the set of the URLs of its body
comment_begin ==
    /\ stack # <<>>
    /\ Top.fn = "extract_comments"
    /\ Top.phase = "between"
    /\ Top.ci < Len(comments[Top.key])
    /\ LET comment == comments[Top.key][Top.ci + 1]
           comment_dir == Join(Top.links_dir, "comment_" \o comment.id)
           attachments_dir == Join(comment_dir, "attachments")
           links_dir == Join(comment_dir, "links")
           ord == orders[Top.key][Top.ci + 1]
           names == Ids(comment.attachment)
           mayFail == IF LinkMayFail
                      THEN {"comment_dir", "links_dir"} \cup
                           (IF names # {} THEN {"attachments_dir"} \cup names
                                          ELSE {})
                      ELSE {}
       IN  \E fault \in {"none"} \cup mayFail :
           LET outcome == [n \in names |->
                              IF n = fault THEN "failed" ELSE "saved"]
               download == names # {} /\ fault # "attachments_dir"
               run == IF download
                      THEN AttachmentLoop(comment.attachment, outcome)
                      ELSE [attempted |-> <<>>, written |-> <<>>, ok |-> TRUE]
               files == SavedIn(attachments_dir, run.written)
               dirs == {comment_dir}
                       \cup (IF download THEN {attachments_dir} ELSE {})
                       \cup (IF fault # "links_dir" THEN {links_dir} ELSE {})
           IN  /\ faults' = IF fault = "none" THEN faults ELSE faults + 1
               /\ IF fault = "comment_dir"
                  THEN \* ensure_directory(comment_dir) returned False: continue
                       /\ stack' = WithTop([Top EXCEPT !.ci = @ + 1])
                       /\ UNCHANGED <<fs, content, fetches, tstate, steps>>
                  ELSE /\ fs' = fs \cup dirs \cup DOMAIN files
                       /\ content' = Written(files)
                       /\ fetches' = FetchAll({AttachmentUrl(a) :
                                                 a \in Range(run.attempted)})
                       /\ IF ~run.ok \/ (fault # "links_dir" /\ ~comment.has_body)
                          THEN \* re.findall(pattern, None) raised TypeError
                               \* into the except of _extract_comments
                               /\ stack' = Pop
                               /\ tstate' = "Failed"
                               /\ steps' = End("failed")
                          ELSE /\ stack' = WithTop([Top EXCEPT
                                    !.ci = @ + 1,
                                    !.phase = "in_comment",
                                    !.todo = IF fault = "links_dir" THEN <<>>
                                             ELSE CommentCalls(comment, ord,
                                                               links_dir)])
                               /\ UNCHANGED <<tstate, steps>>
    /\ UNCHANGED <<batchVars, worldVars, calls>>

\* link_handlers.py:98-244  what process_link returned for a call that is
\* over: process_google_link the value of save_file; process_confluence_link
\* True, or the value of save_file for the error record; process_jira_link
\* False when a directory could not be made, else json_saved and pdf_saved
\* or the value of save_file for the error record; None when no branch of
\* process_link took the URL
ReturnValue(c) ==
    IF c.handler = "none" THEN "None"
    ELSE IF c.handler = "process_google_link"
    THEN (IF c.files # {} THEN "True" ELSE "False")
    ELSE IF c.handler = "process_jira_link" /\ c.fetch = "ok" /\ c.files = {}
    THEN "False"
    ELSE "True"

\* processor.py:217-218  if self.link_handler.process_link(...):
\* links.append(url)
LinkKept(c) == ReturnValue(c) = "True"

\* processor.py:203-220  the list links of the comment: the URLs of the
\* calls _extract_comments made for it, in order, that it kept
CommentLinks(id) ==
    LET made == SelectSeq(calls, LAMBDA c : /\ c.from = "extract_comments"
                                            /\ c.comment = id
                                            /\ LinkKept(c))
    IN  [k \in DOMAIN made |-> made[k].url]

\* processor.py:222-251  the record of the comment and comment_info.txt
comment_end ==
    /\ stack # <<>>
    /\ Top.fn = "extract_comments"
    /\ Top.phase = "in_comment"
    /\ Top.todo = <<>>
    /\ LET comment == comments[Top.key][Top.ci]
           file == Join(Join(Top.links_dir, "comment_" \o comment.id),
                        "comment_info.txt")
       IN  /\ fs' = fs \cup {file}
           /\ content' = Written(Data({file}))
           /\ stack' = WithTop([Top EXCEPT
                          !.phase = "between",
                          !.recorded = Append(@,
                              [id |-> comment.id,
                               links |-> CommentLinks(comment.id)])])
    /\ UNCHANGED <<batchVars, worldVars, tstate, fetches, faults, steps, calls>>

\* processor.py:253-261  comments.json; _extract_comments returns True
\* whether or not the file could be saved
extract_comments_return ==
    /\ stack # <<>>
    /\ Top.fn = "extract_comments"
    /\ Top.phase = "between"
    /\ Top.ci = Len(comments[Top.key])
    /\ LET file == Join(Top.links_dir, "comments.json")
       IN  \E ok \in {TRUE, ~LinkMayFail} :
             IF ok
             THEN /\ fs' = fs \cup {file}
                  /\ content' = Written(file :> Top.recorded)
                  /\ UNCHANGED faults
             ELSE /\ faults' = faults + 1
                  /\ UNCHANGED <<fs, content>>
    /\ stack' = Pop
    /\ tstate' = "CommentsExtracted"
    /\ steps' = End("ok")
    /\ UNCHANGED <<batchVars, worldVars, fetches, calls>>

\* processor.py:267-281  the links directory and the URLs of the description
extract_links ==
    /\ tstate = "CommentsExtracted"
    /\ stack = <<>>
    /\ \E ok \in {TRUE, ~LinkMayFail} :
         IF ok
         THEN /\ fs' = fs \cup {Join(TopDir, "links")}
              /\ stack' = <<Frame("extract_links", TopTicket, <<>>,
                                  Join(TopDir, "links"), "", "description",
                                  DescriptionCalls(TopTicket,
                                                   Join(TopDir, "links")))>>
              /\ steps' = Begin("extract_links", "running")
              /\ UNCHANGED <<tstate, faults>>
         ELSE /\ tstate' = "Failed"
              /\ steps' = Begin("extract_links", "failed")
              /\ faults' = faults + 1
              /\ UNCHANGED <<fs, stack>>
    /\ UNCHANGED <<batchVars, worldVars, fetches, calls, content>>

(***************************************************************************)
(* utils/confluence.py: the inline comments of a page.  An inline comment  *)
(* is [id, parent]: parent is comment["ancestors"][0]["id"], or 0 when the  *)
(* comment has no ancestors.  A thread of the output is [id, comments]: the *)
(* id of its top-level comment and the comments of the thread, each named   *)
(* by its id.                                                               *)
(***************************************************************************)
\* the least element of a non-empty set of numbers
Least(S) == CHOOSE k \in S : \A j \in S : k <= j

\* a slip: a reply whose parent is not in the output is left out
RECURSIVE InlineLoopSkipping(_, _)
InlineLoopSkipping(cs, output) ==
    IF cs = <<>> THEN [raised |-> FALSE, threads |-> output]
    ELSE LET comment == Head(cs)
             hits == {k \in DOMAIN output : output[k].id = comment.parent}
         IN  IF comment.parent # 0
             THEN IF hits = {}
                  THEN InlineLoopSkipping(Tail(cs), output)
                  ELSE InlineLoopSkipping(Tail(cs),
                         [output EXCEPT ![Least(hits)].comments =
                                            Append(@, comment.id)])
             ELSE InlineLoopSkipping(Tail(cs),
                    Append(output, [id |-> comment.id,
                                    comments |-> <<comment.id>>]))

\* a slip: a reply is put in front of the comments of its thread
RECURSIVE InlineLoopPrepending(_, _)
InlineLoopPrepending(cs, output) ==
    IF cs = <<>> THEN [raised |-> FALSE, threads |-> output]
    ELSE LET comment == Head(cs)
             hits == {k \in DOMAIN output : output[k].id = comment.parent}
         IN  IF comment.parent # 0
             THEN IF hits = {}
                  THEN [raised |-> TRUE, threads |-> <<>>]
                  ELSE InlineLoopPrepending(Tail(cs),
                         [output EXCEPT ![Least(hits)].comments =
                                            <<comment.id>> \o @])
             ELSE InlineLoopPrepending(Tail(cs),
                    Append(output, [id |-> comment.id,
                                    comments |-> <<comment.id>>]))

\* confluence.py:125-155  the loop of process_inline_comments over the
\* comments cs still to come, output being output_list so far: a reply is
\* appended to the first thread whose id is its parent id, and ValueError is
\* raised when there is none; a comment with no ancestors opens a thread
RECURSIVE InlineLoop(_, _)
InlineLoop(cs, output) ==
    IF cs = <<>> THEN [raised |-> FALSE, threads |-> output]
    ELSE LET comment == Head(cs)
             hits == {k \in DOMAIN output : output[k].id = comment.parent}
         IN  IF comment.parent # 0
             THEN IF hits = {}
                  THEN [raised |-> TRUE, threads |-> <<>>]
                  ELSE InlineLoop(Tail(cs),
                         [output EXCEPT ![Least(hits)].comments =
                                            Append(@, comment.id)])
             ELSE InlineLoop(Tail(cs),
                    Append(output, [id |-> comment.id,
                                    comments |-> <<comment.id>>]))

\* confluence.py:123-156
ProcessInlineComments(cs) == InlineLoop(cs, <<>>)

\* some reply of cs names a parent that is no top-level comment before it
Orphaned(cs) ==
    \E k \in DOMAIN cs :
        /\ cs[k].parent # 0
        /\ ~\E j \in 1..(k - 1) : cs[j].parent = 0 /\ cs[j].id = cs[k].parent

\* confluence.py:249-261  url.split("pages/")[1].split("/")[0]: the segment
\* after the first "pages"; IndexError (here "") when nothing follows it
get_id_from_url(url) ==
    LET at == {k \in DOMAIN url.path : url.path[k] = "pages"}
    IN  IF at = {} \/ Least(at) = Len(url.path)
        THEN ""
        ELSE url.path[Least(at) + 1]

\* the file the operating system resolves a path to: a ".." segment leads
\* to the parent directory
RECURSIVE Resolve(_, _)
Resolve(dir, rest) ==
    IF rest = <<>> THEN dir
    ELSE IF Head(rest) = ".."
    THEN Resolve(SubSeq(dir, 1, Len(dir) - 1), Tail(rest))
    ELSE Resolve(Append(dir, Head(rest)), Tail(rest))

\* link_handlers.py:131  f"{links_dir}/{content.title}_confluence.pdf"
PdfPath(links_dir, title) ==
    Resolve(links_dir,
            [title EXCEPT ![Len(title)] = @ \o "_confluence.pdf"])

\* the directory a file is created in
Parent(path) == SubSeq(path, 1, Len(path) - 1)

(***************************************************************************)
(* utils/link_handlers.py: process_link and its handlers                   *)
(***************************************************************************)
\* the directory the links of the ticket a frame walks are written under
NestedLinksDir(frame) ==
    IF frame.fn = "process_jira_link"
    THEN Join(Join(frame.links_dir, frame.key), "links")
    ELSE frame.links_dir

\* link_handlers.py:154-157, 240-243, 276-279  the error record a handler
\* writes for the link of a call
ErrorFile(call, kind) == Join(call.dir, call.prefix \o "_" \o kind \o ".json")

\* link_handlers.py:238-244  the except clause of process_jira_link: the
\* error record, named by prefix, holds the variable url
JiraErrorFile(frame) ==
    ErrorFile([dir |-> frame.links_dir, prefix |-> frame.prefix], "jira_link")

\* the calls after process_link(call) was handed to handler; fetch tells
\* what became of the fetch of the link: "none" (no fetch is made), "ok",
\* "failed" (the try block of the handler raised); files are the artifacts
\* the handler wrote for the link, and orphaned tells whether the page came
\* with a reply to an unknown inline comment
Logged(call, handler, fetch, files, orphaned) ==
    Append(calls, [url |-> call.url, dir |-> call.dir, prefix |-> call.prefix,
                   comment |-> call.comment, from |-> Top.fn, key |-> Top.key,
                   handler |-> handler, fetch |-> fetch, files |-> files,
                   orphaned |-> orphaned])

\* processor.py:283-301 / link_handlers.py:224-234  the description loop is
\* over: the comments are listed and their URLs walked
list_comments ==
    /\ stack # <<>>
    /\ Top.fn \in {"extract_links", "process_jira_link"}
    /\ Top.phase = "description"
    /\ Top.todo = <<>>
    /\ \E ok \in {TRUE, ~LinkMayFail} :
         IF ok
         THEN /\ stack' = WithTop([Top EXCEPT
                     !.phase = "comments",
                     !.todo = AllCommentCalls(comments[Top.key],
                                              orders[Top.key],
                                              NestedLinksDir(Top))])
              /\ UNCHANGED <<tstate, fs, faults, steps, calls, content>>
         ELSE \* jira.comments raised
              /\ faults' = faults + 1
              /\ stack' = Pop
              /\ IF Top.fn = "extract_links"
                 THEN /\ tstate' = "Failed"
                      /\ steps' = End("failed")
                      /\ UNCHANGED <<fs, calls, content>>
                 ELSE /\ fs' = fs \cup {JiraErrorFile(Top)}
                      /\ content' = Written(JiraErrorFile(Top) :> Top.url)
                      /\ calls' = [calls EXCEPT
                             ![Top.call].fetch = "failed",
                             ![Top.call].files = @ \cup {JiraErrorFile(Top)}]
                      /\ UNCHANGED <<tstate, steps>>
    /\ UNCHANGED <<batchVars, worldVars, fetches>>

\* processor.py:303 / link_handlers.py:236  the loops are over
walk_return ==
    /\ stack # <<>>
    /\ Top.fn \in {"extract_links", "process_jira_link"}
    /\ Top.phase = "comments"
    /\ Top.todo = <<>>
    /\ stack' = Pop
    /\ IF Top.fn = "extract_links"
       THEN /\ tstate' = "Done"
            /\ steps' = End("ok")
       ELSE UNCHANGED <<tstate, steps>>
    /\ UNCHANGED <<batchVars, worldVars, fs, fetches, faults, calls, content>>

\* a slip: the handler of a Google link goes on with a link of the document
process_google_link_following ==
    /\ Walking
    /\ Classify(NextCall.url, ProjectKeyKnown) = "google"
    /\ LET file == Join(NextCall.dir, NextCall.prefix \o "_google_link.json")
       IN  /\ fs' = fs \cup {file}
           /\ content' = Written(Data({file}))
           /\ calls' = Logged(NextCall, "process_google_link", "none",
                              {file}, FALSE)
    /\ stack' = WithTop([AfterCall(Top, NextCall) EXCEPT
                    !.todo = <<[NextCall EXCEPT !.url = WebUrl]>> \o @])
    /\ UNCHANGED <<batchVars, worldVars, tstate, fetches, faults, steps>>

\* link_handlers.py:98-114  process_link on a Google link: a note is
\* written, nothing is fetched
process_google_link ==
    /\ Walking
    /\ Classify(NextCall.url, ProjectKeyKnown) = "google"
    /\ LET file == Join(NextCall.dir, NextCall.prefix \o "_google_link.json")
       IN  \E ok \in {TRUE, ~LinkMayFail} :
             /\ IF ok
                THEN /\ fs' = fs \cup {file}
                     /\ content' = Written(Data({file}))
                     /\ UNCHANGED faults
                ELSE /\ faults' = faults + 1
                     /\ UNCHANGED <<fs, content>>
             /\ calls' = Logged(NextCall, "process_google_link", "none",
                                IF ok THEN {file} ELSE {}, FALSE)
    /\ stack' = WithTop(AfterCall(Top, NextCall))
    /\ UNCHANGED <<batchVars, worldVars, tstate, fetches, steps>>

\* a slip: the except clause of a handler returns False and writes nothing
ErrorRecordNone(file, url) == <<>>

\* link_handlers.py:151-158, 238-244  the except clause of a handler saves
\* the record {url, type, error}
ErrorRecord(file, url) == file :> url

\* link_handlers.py:116-158  process_link on a Confluence link: the page id
\* is cut out of the URL, the page is fetched and its inline comments put
\* into threads, the text of the page is rendered to a file named by the
\* title of the page and the attachments are saved; whatever is raised
\* before the loop over the attachments ends in the error record.  The
\* links of the page are returned by the helper and not looked at.
process_confluence_link ==
    /\ Walking
    /\ Classify(NextCall.url, ProjectKeyKnown) = "confluence"
    /\ LET call == NextCall
           page_id == get_id_from_url(call.url)
       IN  \E fault \in {"none"} \cup
                        (IF LinkMayFail /\ page_id # ""
                         THEN {"fetch", "attachment"} ELSE {}) :
           LET inline == ProcessInlineComments(page.inline_comments)
               pdf_path == PdfPath(call.dir, page.title)
               raised == \/ page_id = ""
                         \/ fault = "fetch"
                         \/ inline.raised
                         \/ Parent(pdf_path) \notin fs
               saved == IF fault = "attachment" THEN {}
                        ELSE {Join(call.dir, call.prefix \o "_attachment_"
                                             \o ToString(k) \o ".pdf") :
                                 k \in 1..page.attachments}
               written ==
                   IF raised
                   THEN ErrorRecord(ErrorFile(call, "confluence_link"),
                                    call.url)
                   ELSE Data({pdf_path} \cup saved)
           IN  /\ fetches' = IF page_id = "" THEN fetches
                                             ELSE FetchAll({call.url})
               /\ fs' = fs \cup DOMAIN written
               /\ content' = Written(written)
               /\ faults' = IF fault = "none" THEN faults ELSE faults + 1
               /\ calls' = Logged(call, "process_confluence_link",
                                  IF raised THEN "failed" ELSE "ok",
                                  DOMAIN written,
                                  page_id # "" /\ fault # "fetch"
                                      /\ Orphaned(page.inline_comments))
    /\ stack' = WithTop(AfterCall(Top, NextCall))
    /\ UNCHANGED <<batchVars, worldVars, tstate, steps>>

\* link_handlers.py:160-222  process_link on a Jira link: the issue is
\* fetched and saved, and its description is walked
process_jira_link ==
    /\ Walking
    /\ Classify(NextCall.url, ProjectKeyKnown) = "jira"
    /\ Cardinality(JiraFrames) < MaxNesting
    /\ fetches' = FetchAll({NextCall.url})
    /\ LET call == NextCall
           ticket_key == LastSegment(call.url)
           ticket_dir == Join(call.dir, ticket_key)
           nested_links_dir == Join(ticket_dir, "links")
           caller == AfterCall(Top, call)
           known == ticket_key \in LinkTickets
       IN  \E fault \in {"none"} \cup
                        (IF LinkMayFail /\ known THEN {"fetch", "dir"} ELSE {}) :
             /\ faults' = IF fault = "none" THEN faults ELSE faults + 1
             /\ IF ~known \/ fault = "fetch"
                THEN \* jira.issue raised
                     LET written == ErrorRecord(ErrorFile(call, "jira_link"),
                                                call.url)
                     IN  /\ fs' = fs \cup DOMAIN written
                         /\ content' = Written(written)
                         /\ stack' = WithTop(caller)
                         /\ calls' = Logged(call, "process_jira_link", "failed",
                                            DOMAIN written, FALSE)
                ELSE IF fault = "dir"
                THEN \* ensure_directory returned False
                     /\ stack' = WithTop(caller)
                     /\ calls' = Logged(call, "process_jira_link", "ok",
                                        {}, FALSE)
                     /\ UNCHANGED <<fs, content>>
                ELSE LET files == {Join(ticket_dir, ticket_key \o ".json"),
                                   Join(ticket_dir, ticket_key \o ".pdf")}
                     IN  /\ fs' = fs \cup {ticket_dir, nested_links_dir} \cup files
                         /\ content' = Written(Data(files))
                         /\ stack' = Append(WithTop(caller),
                              Frame("process_jira_link", ticket_key, call.url,
                                    call.dir, call.prefix, "description",
                                    DescriptionCalls(ticket_key,
                                                     nested_links_dir)))
                         /\ calls' = Logged(call, "process_jira_link", "ok",
                                            files, FALSE)
    /\ UNCHANGED <<batchVars, worldVars, tstate, steps>>

\* link_handlers.py:81-96  no branch of process_link takes the URL: it
\* returns None
process_link_unmatched ==
    /\ Walking
    /\ Classify(NextCall.url, ProjectKeyKnown) = "none"
    /\ stack' = WithTop(AfterCall(Top, NextCall))
    /\ calls' = Logged(NextCall, "none", "none", {}, FALSE)
    /\ UNCHANGED <<batchVars, worldVars, tstate, fs, fetches, faults, steps,
                   content>>

NextLinks ==
    \/ process_ticket
    \/ save_ticket_info
    \/ create_ticket_pdf
    \/ extract_attachments
    \/ extract_comments
    \/ comment_begin
    \/ comment_end
    \/ extract_comments_return
    \/ extract_links
    \/ list_comments
    \/ walk_return
    \/ process_google_link
    \/ process_confluence_link
    \/ process_jira_link
    \/ process_link_unmatched

SpecLinks == InitLinks /\ [][NextLinks]_vars

\* process_link applied to the URLs of ClassifyUrls
SpecClassify == InitClassify /\ [][NextLinks]_vars

(***************************************************************************)
(* ConfluenceContent.process_inline_comments applied to the lists of at     *)
(* most MaxComments inline comments, the ids of a list all different.       *)
(***************************************************************************)
InlineComments == [id : 1..MaxComments, parent : 0..MaxComments]

InlineLists ==
    UNION {{cs \in [1..n -> InlineComments] :
               \A j, k \in 1..n : cs[j].id = cs[k].id => j = k} :
           n \in 0..MaxComments}

InitInline ==
    /\ comment_list \in InlineLists
    /\ output_list = <<>>
    /\ HelpersIdle
    /\ pc = "page"
    /\ description = <<>>
    /\ comments = <<>>
    /\ orders = <<>>
    /\ attachment = <<>>
    /\ page = <<>>
    /\ tstate = "Idle"
    /\ stack = <<>>
    /\ fetches = <<>>
    /\ steps = <<>>
    /\ calls = <<>>
    /\ content = <<>>
    /\ fs = {}
    /\ fs0 = fs
    /\ faults = 0
    /\ argsValid = TRUE
    /\ credsOk = TRUE
    /\ max_results = 1
    /\ totalFound = 1
    /\ result = "none"
    /\ exitCode = -1
    /\ batch_size = 1
    /\ num_batches = 1
    /\ submitted = <<>>
    /\ failed_batches = <<>>
    /\ collected = {}
    /\ queue = <<>>
    /\ running = {}
    /\ finished = <<>>
    /\ ticketState = [i \in Indices |-> "None"]

\* confluence.py:111  the constructor of ConfluenceContent calls
\* process_inline_comments on the inline comments of the page
process_inline_comments ==
    /\ pc = "page"
    /\ pc' = "parsed"
    /\ output_list' = ProcessInlineComments(comment_list)
    /\ UNCHANGED <<argsValid, credsOk, max_results, totalFound, result,
                   exitCode, batch_size, num_batches, submitted,
                   failed_batches, collected, queue, running, finished,
                   ticketState, fs, fs0, faults, description, comments,
                   orders, attachment, page, tstate, stack, fetches, steps,
                   calls, content, comment_list, helperVars>>

NextInline == process_inline_comments

SpecInline == InitInline /\ [][NextInline]_vars

(***************************************************************************)
(* The helpers that are run on their own: the engine and the walk of a      *)
(* ticket are at rest.                                                      *)
(***************************************************************************)
EngineIdle ==
    /\ description = <<>>
    /\ comments = <<>>
    /\ orders = <<>>
    /\ attachment = <<>>
    /\ page = <<>>
    /\ tstate = "Idle"
    /\ fetches = <<>>
    /\ steps = <<>>
    /\ argsValid = TRUE
    /\ credsOk = TRUE
    /\ max_results = 1
    /\ totalFound = 1
    /\ result = "none"
    /\ exitCode = -1
    /\ batch_size = 1
    /\ num_batches = 1
    /\ submitted = <<>>
    /\ failed_batches = <<>>
    /\ collected = {}
    /\ queue = <<>>
    /\ running = {}
    /\ finished = <<>>
    /\ ticketState = [i \in Indices |-> "None"]
    /\ comment_list = <<>>
    /\ output_list = <<>>
    /\ blocked = {}

\* the variables no helper changes
restVars == <<inputVars, planVars, poolVars, result, exitCode, submitted,
              failed_batches, collected, ticketState, description, comments,
              orders, attachment, page, tstate, steps, inlineVars, blocked>>

(***************************************************************************)
(* utils/confluence.py: ConfluenceConfig.__init__ applied to a url and to   *)
(* every set of keyword arguments.  An argument other than cloud is given   *)
(* (any value that is not None) or not.                                     *)
(***************************************************************************)
AuthArgs ==
    {"username", "password", "api_token", "access_token",
     "access_token_secret", "consumer_key", "key_cert", "oauth_client_id",
     "oauth_token"}

\* url: None, the empty string or a URL; cloud: not given, False or True
ConfigInputs ==
    [url : {"None", "", "https://acme.atlassian.net"},
     given : SUBSET AuthArgs,
     cloud : {"absent", "False", "True"}]

\* confluence.py:37  kwargs.get("cloud", False)
CloudOf(kw) == IF kw.cloud = "absent" THEN "False" ELSE kw.cloud

\* confluence.py:30-73  the authentication mode the constructor sets, or
\* "ValueError" when it raises
AuthMode(kw) ==
    IF kw.url \in {"None", ""} THEN "ValueError"
    ELSE IF {"username", "password"} \subseteq kw.given
            /\ CloudOf(kw) = "False"
    THEN "basic"
    ELSE IF {"username", "api_token"} \subseteq kw.given
            /\ CloudOf(kw) = "True"
    THEN "api_token"
    ELSE IF {"access_token", "access_token_secret", "consumer_key",
             "key_cert"} \subseteq kw.given
    THEN "oauth"
    ELSE IF {"oauth_client_id", "oauth_token"} \subseteq kw.given
    THEN "oauth2"
    ELSE "ValueError"

InitConfig ==
    /\ kwargs \in ConfigInputs
    /\ auth_mode = ""
    /\ pc = "config"
    /\ response = <<>>
    /\ callers = <<>>
    /\ stack = <<>>
    /\ calls = <<>>
    /\ content = <<>>
    /\ fs = {}
    /\ fs0 = fs
    /\ faults = 0
    /\ EngineIdle

\* confluence.py:6-73
ConfluenceConfig_init ==
    /\ pc = "config"
    /\ pc' = "configured"
    /\ auth_mode' = AuthMode(kwargs)
    /\ UNCHANGED <<restVars, fs, faults, stack, fetches, calls, content,
                   response, callers, kwargs>>

NextConfig == ConfluenceConfig_init

SpecConfig == InitConfig /\ [][NextConfig]_vars

(***************************************************************************)
(* utils/link_handlers.py: process_generic_link applied to a URL and to an  *)
(* answer of the server.  The answer is [status, content_type]: the status  *)
(* of the response ("timeout" when none came) and its Content-Type header   *)
(* as the server sent it ("absent" when it sent none).                      *)
(***************************************************************************)
ContentTypes ==
    {"text/html", "text/html; charset=utf-8", "TEXT/HTML", "application/pdf",
     "application/msword", "image/png", "absent"}

Responses ==
    [status : {"200"}, content_type : ContentTypes]
    \cup [status : {"404", "timeout"}, content_type : {"absent"}]
    \cup {[status |-> "404", content_type |-> "text/html"]}

\* link_handlers.py:254  response.headers.get("Content-Type", "").lower()
Lower(header) ==
    IF header = "absent" THEN ""
    ELSE IF header = "TEXT/HTML" THEN "text/html"
    ELSE header

\* link_handlers.py:256, 262  needle in content_type, for the two needles
\* of the handler
InContentType(needle, content_type) ==
    IF needle = "text/html"
    THEN content_type \in {"text/html", "text/html; charset=utf-8"}
    ELSE content_type = needle

\* link_handlers.py:256-273  the suffix of the file the answer is saved
\* to, and what is written: response.text or response.content
GenericArtifact(r) ==
    LET content_type == Lower(r.content_type)
    IN  IF InContentType("text/html", content_type)
        THEN [suffix |-> "_webpage.html", body |-> "response.text"]
        ELSE IF InContentType("application/pdf", content_type)
        THEN [suffix |-> "_document.pdf", body |-> "response.content"]
        ELSE [suffix |-> "_content.bin", body |-> "response.content"]

InitGeneric ==
    /\ response \in Responses
    /\ pc = "generic"
    /\ calls = <<>>
    /\ content = <<>>
    /\ fetches = <<>>
    /\ fs = {OutputDir, TopDir, Join(TopDir, "links")}
    /\ fs0 = fs
    /\ faults = 0
    /\ \E url \in LinkUrls :
         stack = <<Frame("extract_links", TopTicket, <<>>,
                         Join(TopDir, "links"), "", "description",
                         <<[url |-> url, dir |-> Join(TopDir, "links"),
                            comment |-> "",
                            prefix |-> "description_link_0"]>>)>>
    /\ kwargs = <<>>
    /\ auth_mode = ""
    /\ callers = <<>>
    /\ EngineIdle

\* link_handlers.py:246-280  the GET, raise_for_status, the branch on the
\* content type and the save of the answer; whatever the try block raises
\* ends in the error record.  The handler returns what save_file returns.
process_generic_link ==
    /\ pc = "generic"
    /\ Walking
    /\ LET call == NextCall
           raised == response.status # "200"
           artifact == GenericArtifact(response)
           written ==
               IF raised
               THEN ErrorRecord(ErrorFile(call, "link"), call.url)
               ELSE Join(call.dir, call.prefix \o artifact.suffix)
                        :> artifact.body
       IN  \E saved \in {TRUE, ~LinkMayFail} :
             /\ fetches' = FetchAll({call.url})
             /\ IF saved
                THEN /\ fs' = fs \cup DOMAIN written
                     /\ content' = Written(written)
                     /\ UNCHANGED faults
                ELSE /\ faults' = faults + 1
                     /\ UNCHANGED <<fs, content>>
             /\ calls' = Logged(call, "process_generic_link",
                                IF raised THEN "failed" ELSE "ok",
                                IF saved THEN DOMAIN written ELSE {}, FALSE)
    /\ stack' = WithTop(AfterCall(Top, NextCall))
    /\ UNCHANGED <<restVars, pc, fs0, response, kwargs, auth_mode, callers>>

NextGeneric == process_generic_link

SpecGeneric == InitGeneric /\ [][NextGeneric]_vars

(***************************************************************************)
(* utils/file_utils.py: FileUtils.ensure_directory called by two threads,   *)
(* each step of a call (the test of os.path.exists, then os.makedirs and    *)
(* the return) taken at once.  A call that is over is logged as [path, ret, *)
(* before, after]: the directories that existed when the call made its      *)
(* test and when it returned.                                               *)
(***************************************************************************)
Callers == {1, 2}

DirPaths ==
    {OutputDir, Join(OutputDir, "1"), Join(Join(OutputDir, "1"), "links")}

\* file_utils.py:18  os.makedirs(path) makes the path and the ancestors it
\* lacks
Ancestors(path) == {SubSeq(path, 1, k) : k \in 1..Len(path)}

\* a directory exists only inside a directory that exists
InitialDirs == {{}} \cup {Ancestors(path) : path \in DirPaths}

\* a slip: the directory is made without a look at what exists
ExistsNever(path, dirs) == FALSE

\* file_utils.py:17  os.path.exists(directory_path)
Exists(path, dirs) == path \in dirs

InitDirs ==
    /\ fs \in InitialDirs
    /\ fs0 = fs
    /\ callers = [t \in Callers |->
                     [pc |-> "idle", path |-> <<>>, exists |-> FALSE,
                      before |-> {}, log |-> <<>>]]
    /\ pc = "dirs"
    /\ faults = 0
    /\ stack = <<>>
    /\ fetches = <<>>
    /\ calls = <<>>
    /\ content = <<>>
    /\ response = <<>>
    /\ kwargs = <<>>
    /\ auth_mode = ""
    /\ EngineIdle

\* file_utils.py:16-17  thread t enters ensure_directory(path) and tests
\* whether the path exists
ensure_directory_test(t) ==
    /\ pc = "dirs"
    /\ callers[t].pc = "idle"
    /\ Len(callers[t].log) < MaxCalls
    /\ \E path \in DirPaths :
         callers' = [callers EXCEPT ![t] =
                        [@ EXCEPT !.pc = "tested", !.path = path,
                                  !.exists = Exists(path, fs),
                                  !.before = fs]]
    /\ UNCHANGED <<restVars, pc, fs, fs0, faults, stack, fetches, calls,
                   content, response, kwargs, auth_mode>>

\* the call of thread t returns ret
Return(t, ret, dirs) ==
    [callers EXCEPT ![t] =
        [@ EXCEPT !.pc = "idle",
                  !.log = Append(@, [path |-> callers[t].path, ret |-> ret,
                                     before |-> callers[t].before,
                                     after |-> dirs])]]

\* file_utils.py:17-22  thread t goes on after its test: os.makedirs when
\* the path did not exist, which raises FileExistsError when the path
\* exists by now, and the return; what makedirs raises is caught and False
\* is returned
ensure_directory_make(t) ==
    /\ pc = "dirs"
    /\ callers[t].pc = "tested"
    /\ LET path == callers[t].path
       IN  IF callers[t].exists
           THEN /\ callers' = Return(t, TRUE, fs)
                /\ UNCHANGED <<fs, faults>>
           ELSE IF path \in fs
           THEN \* FileExistsError
                /\ callers' = Return(t, FALSE, fs)
                /\ UNCHANGED <<fs, faults>>
           ELSE \E ok \in {TRUE, ~MayFail} :
                  IF ok
                  THEN /\ fs' = fs \cup Ancestors(path)
                       /\ callers' = Return(t, TRUE, fs')
                       /\ UNCHANGED faults
                  ELSE \* os.makedirs raised OSError
                       /\ callers' = Return(t, FALSE, fs)
                       /\ faults' = faults + 1
                       /\ UNCHANGED fs
    /\ UNCHANGED <<restVars, pc, fs0, stack, fetches, calls, content,
                   response, kwargs, auth_mode>>

NextDirs ==
    \/ \E t \in Callers : ensure_directory_test(t)
    \/ \E t \in Callers : ensure_directory_make(t)

SpecDirs == InitDirs /\ [][NextDirs]_vars

(***************************************************************************)
(* Claims about the batch extraction engine and the entry point.           *)
(***************************************************************************)
Returned == pc \in {"returned", "exited"}

\* the page of result indices batch b asked for
PageOf(b) == Range(SearchPage(submitted[b + 1].start_at,
                              submitted[b + 1].batch_size))

\* C4: a batch reports success only if every ticket of its page reached
\* Done; when a ticket of a page did not, the run returns failure.
C4_BatchSuccessOnlyIfAllDone ==
    /\ \A b \in DOMAIN finished :
         finished[b].success => \A i \in PageOf(b) : ticketState[i] = "Done"
    /\ (Returned /\ \E i \in Indices : ticketState[i] = "Failed")
         => result = "False"

\* C5: the entry point returns 0 only when the extraction fully succeeded,
\* and 1 when validation failed or a batch was recorded as failed.
C5_ExitCodeReportsOutcome ==
    pc = "exited" =>
        /\ exitCode = 0 => result = "True"
        /\ (~argsValid \/ failed_batches # <<>>) => exitCode = 1

\* C6: the batches started and not yet finished are never more than
\* min(batchCount, 5).
C6_InFlightBounded ==
    Cardinality(running) <= Min(num_batches, PoolLimit)

\* C6: five batches run while a sixth waits in the queue
C6_Witness ==
    /\ Cardinality(running) = PoolLimit
    /\ num_batches > PoolLimit
    /\ queue # <<>>

FailedOutcomes == {b \in DOMAIN finished : ~finished[b].success}

\* the failed-batch list holds the 1-based index of each failed batch, once
FailedListExact ==
    /\ Range(failed_batches) = {b + 1 : b \in FailedOutcomes}
    /\ \A j, k \in DOMAIN failed_batches :
         failed_batches[j] = failed_batches[k] => j = k

\* C8 as stated: when extract_tickets returns, the failed-batch list is
\* exact and the result is success if and only if the list is empty.
C8_Original ==
    (Returned /\ argsValid /\ credsOk) =>
        /\ FailedListExact
        /\ result = "True" <=> failed_batches = <<>>

\* C8 as amended: the list is exact; success implies an empty list; and when
\* the batches were planned (the output directory, the probe and the plan
\* raised nothing) the result is success if and only if the list is empty.
C8_FailedListExact ==
    (Returned /\ argsValid /\ credsOk) =>
        /\ FailedListExact
        /\ result = "True" => failed_batches = <<>>
        /\ num_batches >= 1 =>
             (result = "True" <=> failed_batches = <<>>)

\* C8: five batches, only 0-based batch 2 failed: the list is [3]
C8_Witness ==
    /\ pc = "returned"
    /\ num_batches = 5
    /\ FailedOutcomes = {2}
    /\ failed_batches = <<3>>
    /\ result = "False"

SubmittedOnce ==
    /\ \A j, k \in DOMAIN submitted :
         submitted[j].batch_num = submitted[k].batch_num => j = k
    /\ {submitted[k].batch_num : k \in DOMAIN submitted}
         \subseteq 0..(num_batches - 1)
    /\ pc \in {"collect", "returned", "exited"} =>
         Len(submitted) = num_batches

NothingLeftRunning ==
    Returned =>
        /\ queue = <<>>
        /\ running = {}
        /\ DOMAIN finished = {submitted[k].batch_num : k \in DOMAIN submitted}

\* the steps taken so far: every action of the engine adds to it, and it
\* is at most 5 + 4 * num_batches
Progress ==
    (CASE pc = "cli" -> 0
       [] pc = "extract" -> 1
       [] pc = "submit" -> 2
       [] pc = "collect" -> 3
       [] pc = "returned" -> 4
       [] pc = "exited" -> 5)
    + Len(submitted) + (Len(submitted) - Len(queue))
    + Cardinality(DOMAIN finished) + Cardinality(collected)

C10_EmptyResultNoEffect ==
    (Returned /\ argsValid /\ credsOk /\ totalFound = 0) =>
        /\ result = "True" =>
             /\ submitted = <<>>
             /\ \A i \in Indices : ticketState[i] = "None"
             /\ fs = fs0

\* C15: within a batch that went through its page, process_ticket was
\* invoked on every ticket of the page exactly once, in page order, whatever
\* the earlier tickets returned.
C15_SiblingTicketsProcessed ==
    \A b \in DOMAIN finished :
        finished[b].success =>
            /\ finished[b].invoked =
                   SearchPage(submitted[b + 1].start_at,
                              submitted[b + 1].batch_size)
            /\ \A i \in PageOf(b) : ticketState[i] # "None"

\* C15: a ticket of a page failed and the next ticket of the same page
\* reached Done
C15_Witness ==
    \E b \in DOMAIN finished : \E i \in PageOf(b) :
        /\ i + 1 \in PageOf(b)
        /\ ticketState[i] = "Failed"
        /\ ticketState[i + 1] = "Done"

(***************************************************************************)
(* Claims about the resolution of links.                                   *)
(***************************************************************************)
\* C1: on every finite reference graph, cyclic ones included, link
\* resolution makes finitely many fetches and returns.  The fetches of a
\* ticket are the same each time, and process_jira_link keeps no record of
\* where it has been, so the recursion comes back by itself only if no
\* ticket is resolved again inside its own resolution: no ticket key is on
\* the call stack twice.
C1_ResolutionTerminates ==
    \A j, k \in JiraFrames : stack[j].key = stack[k].key => j = k

\* C2: within the extraction of one top-level ticket no URL is fetched or
\* recursed into more than once.
C2_NoUrlFetchedTwice ==
    \A u \in DOMAIN fetches : fetches[u] <= 1

\* C3: the nesting depth of process_link calls never exceeds the maximum
\* recursion depth, 3.
C3_DepthBounded ==
    Cardinality(JiraFrames) <= 3

(***************************************************************************)
(* Claims about the ticket pipeline and the dispatch of links.             *)
(***************************************************************************)
\* the files written under the directory of the top-level ticket
TicketFiles == {p \in DOMAIN content : Under(TopDir, p)}

\* the process_link calls the steps of process_ticket made themselves
TopCalls(from) ==
    SelectSeq(calls, LAMBDA c : c.key = TopTicket /\ c.from = from)

\* how many calls of the sequence cs satisfy Test
Count(cs, Test(_)) == Cardinality({k \in DOMAIN cs : Test(cs[k])})

\* C11: a ticket with no attachment, no comment and no URL in its
\* description reaches Done unless the environment fails, and the files
\* under its directory are then exactly <key>_info.json and <key>.pdf.
C11_BareTicketFiles ==
    (/\ attachment = <<>>
     /\ comments[TopTicket] = <<>>
     /\ description[TopTicket] = <<>>)
    => /\ tstate = "Failed" => faults > 0
       /\ tstate = "Done" =>
            TicketFiles = {Join(TopDir, TopTicket \o "_info.json"),
                           Join(TopDir, TopTicket \o ".pdf")}

\* C12: when the ticket is Done, process_link was invoked exactly once,
\* over the comments step and the links step together, for each URL of each
\* comment of the ticket.
C12_CommentUrlResolvedOnce ==
    tstate = "Done" =>
        \A k \in DOMAIN comments[TopTicket] :
            LET c == comments[TopTicket][k]
            IN  \A u \in Range(c.body) :
                  Count(TopCalls("extract_comments") \o TopCalls("extract_links"),
                        LAMBDA x : x.comment = c.id /\ x.url = u) = 1

\* C13: when the ticket is Done, the links step invoked process_link
\* exactly once for each distinct URL of the description.
C13_DescriptionUrlResolvedOnce ==
    tstate = "Done" =>
        \A u \in Range(description[TopTicket]) :
            Count(TopCalls("extract_links"),
                  LAMBDA x : x.comment = "" /\ x.url = u) = 1

\* the order in which process_ticket attempts its steps
StepOrder ==
    <<"save_ticket_info", "create_ticket_pdf", "extract_attachments",
      "extract_comments", "extract_links">>

\* C14: the steps begin in the fixed order; a step begins only after every
\* earlier step succeeded; once a step failed the ticket is Failed and
\* nothing more runs; the ticket is Done exactly when all five succeeded.
C14_StepsInOrder ==
    /\ Len(steps) <= Len(StepOrder)
    /\ \A k \in DOMAIN steps :
         /\ steps[k].step = StepOrder[k]
         /\ k < Len(steps) => steps[k].result = "ok"
         /\ steps[k].result = "failed" => tstate = "Failed"
    /\ tstate = "Failed" => stack = <<>> /\ ~ENABLED NextLinks
    /\ tstate = "Done" <=>
         /\ Len(steps) = Len(StepOrder)
         /\ \A k \in DOMAIN steps : steps[k].result = "ok"

\* C14: the third step failed after two that succeeded
C14_Witness ==
    /\ tstate = "Failed"
    /\ Len(steps) = 3
    /\ steps[2].result = "ok"
    /\ steps[3].result = "failed"

\* C16: once the attachments directory is there, the attachments step
\* succeeds whatever the downloads do, and every attachment of the ticket
\* was attempted, once.
C16_AttachmentFailureIsolated ==
    (Len(steps) >= 3 /\ Join(TopDir, "attachments") \in fs) =>
        /\ steps[3].result = "ok"
        /\ \A k \in DOMAIN attachment :
             Fetched(AttachmentUrl(attachment[k])) = 1

\* C16: the first attachment could not be saved, the second was, and the
\* ticket went through the comments and links steps to Done
C16_Witness ==
    /\ tstate = "Done"
    /\ Len(attachment) >= 2
    /\ Join(Join(TopDir, "attachments"), attachment[1].filename)
           \notin DOMAIN content
    /\ Join(Join(TopDir, "attachments"), attachment[2].filename)
           \in DOMAIN content
    /\ steps[4].result = "ok"
    /\ steps[5].result = "ok"

\* C17: what goes wrong while one comment is handled (an attachment, a
\* link, the URLs of its body, a comment with no body) neither fails the
\* comments step nor keeps the other comments out of comments.json: the step
\* fails only before the first comment is handled, and comments.json
\* records every comment whose directory was made.
C17_CommentsIndependent ==
    LET comments_dir == Join(TopDir, "comments")
        file == Join(comments_dir, "comments.json")
    IN  Len(steps) >= 4 =>
          /\ steps[4].result = "failed" =>
                ~\E p \in fs : Under(comments_dir, p)
          /\ (steps[4].result = "ok" /\ file \in DOMAIN content) =>
                \A k \in DOMAIN comments[TopTicket] :
                    LET c == comments[TopTicket][k]
                    IN  Join(comments_dir, "comment_" \o c.id) \in fs
                            => \E j \in DOMAIN content[file] :
                                   content[file][j].id = c.id

\* the URL matches no rule of the classification before the default
Unmatched(url) ==
    /\ ~InDomain(<<"docs", "google", "com">>, url)
    /\ ~InDomain(<<"drive", "google", "com">>, url)
    /\ ~InUrl("wiki", url) /\ ~InUrl("spaces", url) /\ ~InUrl("pages", url)
    /\ ~InUrl("browse", url)

\* link_handlers.py:256-279  the files process_generic_link writes
GenericFiles(call) ==
    {Join(call.dir, call.prefix \o suffix) :
        suffix \in {"_webpage.html", "_document.pdf", "_content.bin",
                    "_link.json"}}

\* C18: a URL no rule matches is handed to process_generic_link, which
\* leaves an artifact for it.
C18_GenericDefault ==
    \A k \in DOMAIN calls :
        Unmatched(calls[k].url) =>
            /\ calls[k].handler = "process_generic_link"
            /\ GenericFiles(calls[k]) \cap DOMAIN content # {}

\* the three markers of a page of the content system
PageMarkers(url) ==
    InUrl("wiki", url) /\ InUrl("spaces", url) /\ InUrl("pages", url)

DocStoreHost(url) ==
    \/ InDomain(<<"docs", "google", "com">>, url)
    \/ InDomain(<<"drive", "google", "com">>, url)

\* C19: the first rule that matches wins, in the order DocStore,
\* ContentSystem, TrackerTicket: a URL on a document-store host goes to the
\* Google handler whatever markers it carries, and a URL with the page
\* markers goes to the Confluence handler even with the browse marker.
C19_Precedence ==
    \A k \in DOMAIN calls :
        LET c == calls[k]
        IN  /\ DocStoreHost(c.url) => c.handler = "process_google_link"
            /\ (~DocStoreHost(c.url) /\ PageMarkers(c.url)) =>
                  c.handler = "process_confluence_link"
            /\ c.handler = "process_jira_link" =>
                  /\ ~DocStoreHost(c.url)
                  /\ ~PageMarkers(c.url)
                  /\ InUrl("browse", c.url)

\* C19: a URL with the page markers and the browse marker went to the
\* Confluence handler
C19_Witness ==
    \E k \in DOMAIN calls :
        /\ ~DocStoreHost(calls[k].url)
        /\ PageMarkers(calls[k].url)
        /\ InUrl("browse", calls[k].url)
        /\ calls[k].handler = "process_confluence_link"

\* the error record of a call whose fetch failed
ErrorFileOf(c) ==
    ErrorFile(c, IF c.handler = "process_confluence_link"
                 THEN "confluence_link" ELSE "jira_link")

\* the calls the links step of the top-level ticket is to make
PlannedCalls ==
    DescriptionCalls(TopTicket, Join(TopDir, "links"))
    \o AllCommentCalls(comments[TopTicket], orders[TopTicket],
                       Join(TopDir, "links"))

\* a link whose fetch failed left its JSON error record in the destination
\* directory
FailedFetchesRecorded ==
    \A k \in DOMAIN calls :
        calls[k].fetch = "failed" => ErrorFileOf(calls[k]) \in DOMAIN content

\* a ticket that is Done made every call of its links step, in order
LinksStepComplete ==
    tstate = "Done" =>
        LET made == TopCalls("extract_links")
        IN  /\ Len(made) = Len(PlannedCalls)
            /\ \A k \in DOMAIN made :
                 /\ made[k].url = PlannedCalls[k].url
                 /\ made[k].dir = PlannedCalls[k].dir
                 /\ made[k].prefix = PlannedCalls[k].prefix

\* C20: process_link never raises into its caller (a call of it leaves the
\* step in progress and the frames of its callers as they are), a link
\* whose fetch failed left its JSON error record in the destination
\* directory, and the caller goes on with its remaining links.
C20_FetchFailureRecorded ==
    /\ [](FailedFetchesRecorded /\ LinksStepComplete)
    /\ [][Len(calls') > Len(calls) =>
            /\ tstate' = tstate
            /\ steps' = steps
            /\ Len(stack') >= Len(stack)
            /\ \A k \in 1..(Len(stack) - 1) : stack'[k] = stack[k]
            /\ stack'[Len(stack)] = AfterCall(Top, NextCall)]_vars

\* C20: the fetch of a link failed and its caller made a later call
C20_Witness ==
    \E j, k \in DOMAIN calls :
        /\ j < k
        /\ calls[j].fetch = "failed"
        /\ calls[j].key = TopTicket
        /\ calls[k].key = TopTicket
        /\ calls[j].from = calls[k].from
        /\ calls[j].comment = calls[k].comment

C22_WritesUnderTicketDir ==
    \A p \in (fs \cup DOMAIN content) \ fs0 :
        p = TopDir \/ Under(TopDir, p)

\* the calls of the links step of the top-level ticket, by position in calls
LinksStepCalls ==
    {k \in DOMAIN calls :
        calls[k].key = TopTicket /\ calls[k].from = "extract_links"}

\* C23: two resolutions of the links step that differ in the source field,
\* the comment id or the link ordinal (all of them in the comment id and the
\* prefix of the call) write no artifact path in common.
C23_ArtifactPathsUnique ==
    \A j, k \in LinksStepCalls :
        <<calls[j].comment, calls[j].prefix>>
            # <<calls[k].comment, calls[k].prefix>>
        => calls[j].files \cap calls[k].files = {}

\* the attachments of the top-level ticket and of its comments, each with
\* the directory it is saved in
OwnedAttachments ==
    {[att |-> attachment[k], dir |-> Join(TopDir, "attachments")] :
        k \in DOMAIN attachment}
    \cup UNION {{[att |-> comments[TopTicket][c].attachment[k],
                  dir |-> Join(Join(Join(TopDir, "comments"),
                                    "comment_" \o comments[TopTicket][c].id),
                               "attachments")] :
                    k \in DOMAIN comments[TopTicket][c].attachment} :
                c \in DOMAIN comments[TopTicket]}

\* C24: when the ticket is Done and nothing failed, every attachment of the
\* ticket and of its comments is in the archive: the file of its name in
\* the directory of its owner holds that attachment and not another one.
C24_AttachmentsKeptApart ==
    (tstate = "Done" /\ faults = 0) =>
        \A a \in OwnedAttachments :
            /\ Join(a.dir, a.att.filename) \in DOMAIN content
            /\ content[Join(a.dir, a.att.filename)] = a.att.id

\* the URLs of the body of a ticket
TicketUrls(key) == Range(description[key]) \cup CommentUrls(comments[key])

\* a later call than k resolves url into a directory under the one call k
\* wrote into
ResolvedBelow(k, url) ==
    \E j \in DOMAIN calls :
        /\ j > k
        /\ calls[j].url = url
        /\ Under(calls[k].dir, calls[j].dir)

\* every URL of a ticket process_link resolved was resolved below it
TicketLinksFollowed ==
    \A k \in DOMAIN calls :
        (calls[k].handler = "process_jira_link" /\ calls[k].fetch = "ok") =>
            \A u \in TicketUrls(LastSegment(calls[k].url)) :
                ResolvedBelow(k, u)

\* every URL of a page process_link resolved was resolved below it
PageLinksFollowed ==
    \A k \in DOMAIN calls :
        (calls[k].handler = "process_confluence_link"
         /\ calls[k].fetch = "ok") =>
            \A u \in Range(page.links) : ResolvedBelow(k, u)

\* C25: when the ticket is Done and nothing failed, every URL of the body of
\* a ticket or of a page that process_link resolved was itself passed to
\* process_link, with a directory under that of the ticket or page.
C25_TargetLinksFollowed ==
    (tstate = "Done" /\ faults = 0) =>
        TicketLinksFollowed /\ PageLinksFollowed

\* the handlers of the links at which the recursion stops; "none" stands
\* for a URL no branch of process_link takes
TerminalHandlers ==
    {"process_google_link", "process_generic_link", "none"}

\* C26: a call of process_link for a DocStore or a Generic link makes no
\* process_link call of its own: it opens no walk and leaves its caller
\* with the links the caller had still to resolve.
C26_TerminalLinks ==
    [][(/\ Len(calls') > Len(calls)
        /\ calls'[Len(calls')].handler \in TerminalHandlers)
       => stack' = WithTop(AfterCall(Top, NextCall))]_vars

\* C26: a DocStore link and a URL no branch takes were resolved, and the
\* ticket is Done
C26_Witness ==
    /\ tstate = "Done"
    /\ \E j, k \in DOMAIN calls :
         /\ calls[j].handler = "process_google_link"
         /\ calls[k].handler = "none"

\* C27: process_link hands a URL to the handler of the content system
\* exactly when its host is no document-store host and the URL holds every
\* one of the markers "wiki", "spaces" and "pages".
C27_PageRule ==
    \A k \in DOMAIN calls :
        calls[k].handler = "process_confluence_link"
        <=> (~DocStoreHost(calls[k].url) /\ PageMarkers(calls[k].url))

\* some marker of a page of the content system is in the URL
AnyPageMarker(url) ==
    InUrl("wiki", url) \/ InUrl("spaces", url) \/ InUrl("pages", url)

\* the ticket-browse marker is a segment of the path of the URL
BrowseInPath(url) == "browse" \in Range(url.path)

\* C28: a URL goes to the ticket handler only if the browse marker is in
\* its path (in the host name it does not count), and a URL with the
\* marker in its path that no earlier rule takes goes to the ticket handler
\* (the project key of the batch is known).
C28_TicketRule ==
    \A k \in DOMAIN calls :
        LET c == calls[k]
        IN  /\ c.handler = "process_jira_link" => BrowseInPath(c.url)
            /\ (/\ ~DocStoreHost(c.url)
                /\ ~AnyPageMarker(c.url)
                /\ BrowseInPath(c.url))
               => c.handler = "process_jira_link"

\* every comment of the top-level ticket has a body
BodiesPresent ==
    \A k \in DOMAIN comments[TopTicket] : comments[TopTicket][k].has_body

\* C29: a page that comes with a reply to an unknown inline comment fails
\* that page only: the handler leaves the error record of the link and
\* nothing else, process_link returns to its caller, which goes on with its
\* remaining links, and the ticket is not Failed on that account.
C29_DanglingReplyFailsPageOnly ==
    /\ [](\A k \in DOMAIN calls :
            calls[k].orphaned =>
                /\ calls[k].fetch = "failed"
                /\ calls[k].files = {ErrorFileOf(calls[k])}
                /\ ErrorFileOf(calls[k]) \in DOMAIN content)
    /\ [](LinksStepComplete)
    /\ []((faults = 0 /\ BodiesPresent) => tstate # "Failed")
    /\ [][(Len(calls') > Len(calls) /\ calls'[Len(calls')].orphaned) =>
            /\ tstate' = tstate
            /\ steps' = steps
            /\ stack' = WithTop(AfterCall(Top, NextCall))]_vars

\* C29: the page of the first link of the description came with a dangling
\* reply, a later link of the description was resolved, and the ticket is
\* Done
C29_Witness ==
    /\ tstate = "Done"
    /\ \E j, k \in LinksStepCalls :
         /\ j < k
         /\ calls[j].orphaned
         /\ calls[j].comment = ""
         /\ calls[k].comment = ""

\* the threads of a list of inline comments: one for each comment with no
\* parent, in the order of the list, holding that comment and then the
\* replies to it in the order of the list
Threads(cs) ==
    LET tops == SelectSeq(cs, LAMBDA c : c.parent = 0)
    IN  [t \in DOMAIN tops |->
            LET replies == SelectSeq(cs, LAMBDA c : c.parent = tops[t].id)
            IN  [id |-> tops[t].id,
                 comments |-> <<tops[t].id>>
                              \o [r \in DOMAIN replies |-> replies[r].id]]]

\* the comments of the threads ts, counted
RECURSIVE Total(_)
Total(ts) ==
    IF ts = <<>> THEN 0 ELSE Len(Head(ts).comments) + Total(Tail(ts))

\* C30: process_inline_comments raises exactly when some reply names a
\* parent that is no top-level comment before it in the list; otherwise it
\* returns one thread for each top-level comment, in the order of the list,
\* each holding the top-level comment and then its replies in the order of
\* the list, the threads holding as many comments as the list.
C30_InlineThreads ==
    pc = "parsed" =>
        /\ output_list.raised <=> Orphaned(comment_list)
        /\ ~Orphaned(comment_list) =>
              /\ output_list.threads = Threads(comment_list)
              /\ Total(output_list.threads) = Len(comment_list)

\* C30: a list with two top-level comments and a reply to the first one
\* that comes after the second was put into threads
C30_Witness ==
    /\ pc = "parsed"
    /\ ~output_list.raised
    /\ Len(output_list.threads) = 2
    /\ Len(output_list.threads[1].comments) = 2
    /\ comment_list[3].parent = comment_list[1].id

(***************************************************************************)
(* Claims about the records of the archive, the helpers and the entry       *)
(* point.                                                                   *)
(***************************************************************************)
\* the comment of the top-level ticket with the id
CommentOf(id) ==
    CHOOSE c \in Range(comments[TopTicket]) : c.id = id

\* C35: the links field of a comment in comments.json holds every distinct
\* URL of the body of the comment exactly once, whatever handler the URL
\* goes to and whatever comes of resolving it (looked at in the runs in
\* which neither the file system nor the remote fails).
C35_CommentLinksComplete ==
    LET file == Join(Join(TopDir, "comments"), "comments.json")
    IN  (faults = 0 /\ file \in DOMAIN content) =>
          \A j \in DOMAIN content[file] :
              LET r == content[file][j]
                  urls == Range(CommentOf(r.id).body)
              IN  /\ Range(r.links) = urls
                  /\ Len(r.links) = Cardinality(urls)

\* C39: the error record process_jira_link writes for a call that failed
\* holds the URL the call was made with.
C39_ErrorRecordsCallUrl ==
    \A k \in DOMAIN calls :
        (calls[k].handler = "process_jira_link" /\ calls[k].fetch = "failed")
            => content[ErrorFile(calls[k], "jira_link")] = calls[k].url

\* C36: when the validation of the arguments fails, or the extractor cannot
\* be constructed, the entry point returns 1 before any work starts:
\* extract_tickets is not entered (no search), no batch is submitted or run
\* and no directory or file is created.
C36_ConfigurationErrorBeforeWork ==
    (~argsValid \/ ~credsOk) =>
        /\ pc \in {"cli", "exited"}
        /\ pc = "exited" => exitCode = 1
        /\ result = "none"
        /\ submitted = <<>> /\ queue = <<>> /\ running = {}
        /\ finished = <<>>
        /\ \A i \in Indices : ticketState[i] = "None"
        /\ fs = fs0

\* C36: the entry point returned 1 for invalid arguments, although the
\* extractor could have been constructed and the query finds tickets
C36_Witness ==
    /\ ~argsValid /\ credsOk /\ totalFound > 0 /\ max_results > 0
    /\ pc = "exited" /\ exitCode = 1

\* C38: for max_results <= 0 and a query that finds tickets, extract_tickets
\* returns False: it submits no batch and process_ticket is invoked on no
\* ticket.
C38_NonPositivePageSizeFails ==
    (max_results <= 0 /\ totalFound >= 1) =>
        /\ result \in {"none", "False"}
        /\ pc \notin {"submit", "collect"}
        /\ submitted = <<>> /\ queue = <<>> /\ running = {}
        /\ finished = <<>>
        /\ \A i \in Indices : ticketState[i] = "None"

\* C38: extract_tickets returned False for a negative max_results with
\* nothing failing in the file system or in the remote
C38_Witness ==
    /\ max_results < 0 /\ totalFound >= 1 /\ faults = 0
    /\ pc = "returned" /\ result = "False"

\* C34: every blocking remote call of a batch has a bounded timeout, so a
\* batch a worker has started completes even when the remote stays silent.
C34_BatchesComplete ==
    \A b \in Batches : (b \in running) ~> (b \in DOMAIN finished)

\* the first authentication mode, in the order of the docstring, whose
\* parameters are all given: Basic (username, password; cloud either way),
\* API token (username, api_token, cloud True), OAuth, OAuth2
DocumentedMode(kw) ==
    IF {"username", "password"} \subseteq kw.given THEN "basic"
    ELSE IF {"username", "api_token"} \subseteq kw.given
            /\ CloudOf(kw) = "True"
    THEN "api_token"
    ELSE IF {"access_token", "access_token_secret", "consumer_key",
             "key_cert"} \subseteq kw.given
    THEN "oauth"
    ELSE IF {"oauth_client_id", "oauth_token"} \subseteq kw.given
    THEN "oauth2"
    ELSE "none"

\* C37: ConfluenceConfig takes the first mode, in the order Basic, API
\* token, OAuth, OAuth2, whose parameters are all given, Basic for any value
\* of cloud; it raises ValueError exactly when the url is None or empty or
\* no mode has all its parameters.
C37_FirstCompleteModeChosen ==
    pc = "configured" =>
        IF kwargs.url \in {"None", ""} \/ DocumentedMode(kwargs) = "none"
        THEN auth_mode = "ValueError"
        ELSE auth_mode = DocumentedMode(kwargs)

\* C31: on a successful GET the generic fetcher stores the raw HTML and a
\* plain text derived from it when the content type is HTML, the raw bytes
\* as a document when it is the document type, and the raw bytes with the
\* generic extension otherwise; on a transport or status error it writes
\* the error record of the URL and returns to its caller (looked at in the
\* runs in which the file system does not fail).
C31_GenericFetcher ==
    (faults = 0 /\ calls # <<>>) =>
        LET c == calls[1]
            name(suffix) == Join(c.dir, c.prefix \o suffix)
            content_type == Lower(response.content_type)
        IN  /\ stack = <<[stack[1] EXCEPT !.todo = <<>>, !.url = @]>>
            /\ IF response.status # "200"
               THEN /\ c.files = {name("_link.json")}
                    /\ content[name("_link.json")] = c.url
               ELSE IF InContentType("text/html", content_type)
               THEN /\ name("_webpage.html") \in c.files
                    /\ content[name("_webpage.html")] = "response.text"
                    /\ Cardinality(c.files) = 2
               ELSE IF InContentType("application/pdf", content_type)
               THEN /\ c.files = {name("_document.pdf")}
                    /\ content[name("_document.pdf")] = "response.content"
               ELSE /\ c.files = {name("_content.bin")}
                    /\ content[name("_content.bin")] = "response.content"

\* no other thread than t has called ensure_directory
Alone(t) ==
    \A u \in Callers \ {t} :
        callers[u].pc = "idle" /\ callers[u].log = <<>>

\* C32: ensure_directory is idempotent: on a path that exists it returns
\* True and changes nothing, and two calls in sequence on a path that did
\* not exist both return True and leave the file system as the first call
\* left it (one thread calling, no failure of the file system).
C32_EnsureDirectoryIdempotent ==
    \A t \in Callers :
        (Alone(t) /\ faults = 0) =>
            LET log == callers[t].log
            IN  /\ \A k \in DOMAIN log :
                     log[k].path \in log[k].before =>
                         log[k].ret /\ log[k].after = log[k].before
                /\ \A k \in DOMAIN log :
                     (k > 1 /\ log[k].path = log[k - 1].path
                            /\ log[k].path \notin log[k - 1].before) =>
                         /\ log[k - 1].ret
                         /\ log[k].ret
                         /\ log[k].path \in log[k].after
                         /\ log[k].after = log[k - 1].after

\* C32: one thread called ensure_directory twice on a ticket directory that
\* did not exist, and both calls returned True
C32_Witness ==
    /\ Alone(1) /\ faults = 0
    /\ Len(callers[1].log) = 2
    /\ callers[1].log[1].path = Join(OutputDir, "1")
    /\ callers[1].log[2].path = Join(OutputDir, "1")
    /\ callers[1].log[1].path \notin callers[1].log[1].before
    /\ callers[1].log[1].ret /\ callers[1].log[2].ret

\* C33: when two threads call ensure_directory on the same path that does
\* not exist, under every interleaving of their tests and their creations
\* both calls return True and the directory exists afterwards (no failure
\* of the file system).
C33_ConcurrentCreateSafe ==
    faults = 0 =>
        \A t \in Callers : \A u \in Callers \ {t} :
            \A j \in DOMAIN callers[t].log : \A k \in DOMAIN callers[u].log :
                LET mine == callers[t].log[j]
                    other == callers[u].log[k]
                IN  (/\ mine.path = other.path
                     /\ mine.path \notin mine.before
                     /\ other.path \notin other.before) =>
                        mine.ret /\ mine.path \in mine.after

====
